---- MODULE Spec2Model ----
(***************************************************************************)
(* Man10Routine: the DAG scheduler (src/src/scheduler/dag_scheduler.rs),   *)
(* the reference-counted ArgoCD teardown guards                            *)
(* (src/src/kubernetes_objects/argocd/tearing.rs) and the daily routine    *)
(* that combines them (src/src/routine/daily).                             *)
(*                                                                         *)
(* Three specifications share the variables:                               *)
(*   Spec      from_tasks and Scheduler::run over every small task list;   *)
(*   SpecTear  concurrent tear() / close() callers on the GitOps forest;   *)
(*   SpecDaily DailyRoutineContext::run: the scheduler over the daily      *)
(*             task graph, phase_argocd_teardown and the finalizer.        *)
(***************************************************************************)
EXTENDS Integers, Sequences, FiniteSets, Bags, TLC

VARIABLES
    \* ---- scheduler (dag_scheduler.rs) ----
    taskList,       \* Vec<TaskSpec> handed to from_tasks: <<[name, deps]>>
    dagResult,      \* "none" | "Ok" | "DuplicateTaskName" | "UnknownDependency"
    tasks,          \* Scheduler.tasks: names still in the map
    reverse_edges,  \* Scheduler.reverse_edges: dep -> [dependent -> occurrences]
    indegree,       \* Scheduler.indegree
    ready,          \* run(): VecDeque<String>
    inflight,       \* run(): names in the JoinSet (spawned, not yet joined)
    completed,      \* the JoinSet's finished tasks in completion order
    taskState,      \* name -> "idle" | "running" | "ok" | "err" | "panic" | "aborted"
    shutdown,       \* Shutdown latch: rx.borrow().is_some()
    schedPc,        \* position of from_tasks / run
    runResult,      \* [kind |-> "none" | "Ok" | "Err" | "JoinErr", task]
    joinLog,        \* history: names in the order join_next returned them
    \* ---- ArgoCD teardown (tearing.rs) ----
    automated,      \* Kubernetes side: node -> spec.syncPolicy.automated present
    tear,           \* ArgoCd.tear: node -> [kind |-> "None" | "Ok" | "Err", td]
    tds,            \* the Teardown objects ever created, by id
    nodeLock,       \* RwLock<ArgoCd>: node -> [w, r, q]
    tdLock,         \* RwLock<Teardown>: id -> [w, r, q]
    stack,          \* caller -> its async call stack of tear / close frames
    ret,            \* caller -> value returned by the frame that just ended
    held,           \* caller -> bag of guards (teardown ids) returned and unclosed
    calls,          \* caller -> number of tear() calls started
    faults,         \* number of Kubernetes API failures injected so far
    restoreFailed,  \* history: nodes on which a restore patch failed
    tearLog,        \* history: caller -> facts about its current / last call
    \* ---- daily routine (routine/daily) ----
    chartTear,      \* MinecraftChart.argocd_tear: chart -> None | Ok guard | Err
    phasePc,        \* position of phase_argocd_teardown
    routinePc,      \* position of DailyRoutineContext::run / finalizer
    routineResult,  \* what DailyRoutineContext::run returned
    \* ---- wait loops (statefulset.rs, job.rs, wait_until_pod_stopped.rs) ----
    wait,           \* the locals of one wait loop and what it returned
    \* ---- execute_job (routine/daily/phase_execute_job.rs) ----
    exec,           \* one execute_job call: its job, its position, its result
    \* ---- configuration (config/raw.rs, config/mod.rs) ----
    conf,           \* one parse: the raw configuration and what try_from made
    \* ---- MinecraftChart (kubernetes_objects/minecraft_chart.rs) ----
    chart,          \* history: chart -> its argocd_teardown and release calls
    \* ---- shutdown tasks (phase_shutdown_mcproxy.rs, phase_shutdown_mcservers.rs) ----
    shut            \* one shutdown task: its position, the StatefulSets, its result

schedVars == <<taskList, dagResult, tasks, reverse_edges, indegree, ready,
               inflight, completed, taskState, shutdown, schedPc, runResult,
               joinLog>>
tearVars == <<automated, tear, tds, nodeLock, tdLock, stack, ret, held, calls,
              faults, restoreFailed, tearLog>>
dailyVars == <<chartTear, phasePc, routinePc, routineResult, wait, exec, conf,
               chart, shut>>
vars == <<schedVars, tearVars, dailyVars>>

(***************************************************************************)
(* Bounds of the model.                                                    *)
(***************************************************************************)
MaxTasks == 3       \* longest task list handed to from_tasks
MaxDeps == 2        \* longest deps vector of a task
MaxCalls == 1       \* tear() calls one free caller starts (SpecTear)
MaxFaults == 2      \* Kubernetes API failures injected in one behaviour

None == "None"

(***************************************************************************)
(* Helpers on sequences.                                                   *)
(***************************************************************************)
Range(s) == {s[i] : i \in DOMAIN s}

Count(s, x) == Cardinality({i \in DOMAIN s : s[i] = x})

SeqsUpTo(S, n) == UNION {[1..k -> S] : k \in 0..n}

\* every ordering of a finite set, as sequences without repetition
Perms(S) == {p \in [1..Cardinality(S) -> S] : Range(p) = S}

(***************************************************************************)
(* Scheduler::from_tasks                                                   *)
(***************************************************************************)
TaskNames == {"a", "b", "c"}

NameOrd == [n \in TaskNames |-> CASE n = "a" -> 1 [] n = "b" -> 2 [] OTHER -> 3]

IsSorted(s) == \A i \in 1..(Len(s) - 1) : NameOrd[s[i]] <= NameOrd[s[i + 1]]

\* A deps vector.  from_tasks reads it entry by entry (contains_key, one push
\* per entry), so only the multiset of its entries reaches the scheduler:
\* the vectors are drawn in nondecreasing order.
DepsVecs == {d \in SeqsUpTo(TaskNames, MaxDeps) : IsSorted(d)}

TaskSpecs == [name : TaskNames, deps : DepsVecs]

\* The task lists.  from_tasks moves the list into a HashMap, which forgets
\* the order; lists are drawn with their names in nondecreasing order.
TaskLists ==
    {l \in SeqsUpTo(TaskSpecs, MaxTasks) :
        IsSorted([i \in DOMAIN l |-> l[i].name])}

NamesOf(l) == {l[i].name : i \in DOMAIN l}

DepsOf(l, t) == l[CHOOSE i \in DOMAIN l : l[i].name = t].deps

\* lines 61-67: the first loop rejects a name already in tasks_map
HasDuplicateName(l) ==
    \E i, j \in DOMAIN l : i < j /\ l[i].name = l[j].name

\* lines 72-81: a dependency that is no key of tasks_map
HasUnknownDependency(l) ==
    \E i \in DOMAIN l : \E k \in DOMAIN l[i].deps :
        l[i].deps[k] \notin NamesOf(l)

\* The variant from_tasks returns.  Duplicates are looked for first; nothing
\* else is checked (InvalidDagError has only these two variants).
FromTasksKind(l) ==
    IF HasDuplicateName(l) THEN "DuplicateTaskName"
    ELSE IF HasUnknownDependency(l) THEN "UnknownDependency"
    ELSE "Ok"

\* lines 73, 86: one increment per entry of deps
BuildIndegree(l) == [t \in NamesOf(l) |-> Len(DepsOf(l, t))]

\* lines 82-85: one push of the dependent per entry of deps
BuildReverseEdges(l) ==
    [d \in NamesOf(l) |-> [t \in NamesOf(l) |-> Count(DepsOf(l, t), d)]]

FromTasks ==
    /\ schedPc = "new"
    /\ dagResult' = FromTasksKind(taskList)
    /\ IF FromTasksKind(taskList) = "Ok"
       THEN /\ tasks' = NamesOf(taskList)
            /\ indegree' = BuildIndegree(taskList)
            /\ reverse_edges' = BuildReverseEdges(taskList)
            /\ schedPc' = "start"
       ELSE /\ schedPc' = "invalid"
            /\ UNCHANGED <<tasks, indegree, reverse_edges>>
    /\ UNCHANGED <<taskList, ready, inflight, completed, taskState, shutdown,
                   runResult, joinLog>>

(***************************************************************************)
(* Shutdown (scheduler/shutdown.rs): the listener task stores Some(signal) *)
(* in the watch channel once; nothing stores None again.                   *)
(***************************************************************************)
Requested == shutdown

SignalArrives ==
    /\ ~shutdown
    /\ schedPc \notin {"new", "invalid", "done"}
    /\ shutdown' = TRUE
    /\ UNCHANGED <<taskList, dagResult, tasks, reverse_edges, indegree, ready,
                   inflight, completed, taskState, schedPc, runResult, joinLog>>

(***************************************************************************)
(* Scheduler::run                                                          *)
(***************************************************************************)
\* faulty variant: a task with one unmet dependency is taken as ready
InitialReadyOffByOne(deg) == {t \in DOMAIN deg : deg[t] <= 1}

\* lines 99-103: the names whose indegree is 0
InitialReady(deg) == {t \in DOMAIN deg : deg[t] = 0}

\* lines 99-103: collected in the HashMap's iteration order, which is any order
RunStart ==
    /\ schedPc = "start"
    /\ \E p \in Perms(InitialReady(indegree)) : ready' = p
    /\ schedPc' = "loop"
    /\ UNCHANGED <<taskList, dagResult, tasks, reverse_edges, indegree,
                   inflight, completed, taskState, shutdown, runResult, joinLog>>

\* faulty variant: the loop ends as soon as the ready queue is empty
LoopConditionReadyOnly == ready /= <<>>

\* line 107: the while condition
LoopCondition == ready /= <<>> \/ inflight /= {}

\* lines 107-110, 156
LoopTop ==
    /\ schedPc = "loop"
    /\ IF LoopCondition
       THEN /\ ready' = IF Requested THEN <<>> ELSE ready
            /\ schedPc' = "launch"
            /\ UNCHANGED runResult
       ELSE /\ runResult' = [kind |-> "Ok", task |-> None]
            /\ schedPc' = "done"
            /\ UNCHANGED ready
    /\ UNCHANGED <<taskList, dagResult, tasks, reverse_edges, indegree,
                   inflight, completed, taskState, shutdown, joinLog>>

\* faulty variant: the inner loop spawns without looking at the latch
LaunchAllowedUnchecked == TRUE

\* line 113: a popped task is spawned unless shutdown was requested
LaunchAllowed == ~Requested

\* lines 112-127: one turn of the inner while loop.  tasks.remove(..).expect
\* panics on a name that is no longer in the map.
LaunchOne ==
    /\ schedPc = "launch"
    /\ ready /= <<>>
    /\ ready' = Tail(ready)
    /\ IF LaunchAllowed
       THEN /\ Head(ready) \in tasks
            /\ tasks' = tasks \ {Head(ready)}
            /\ inflight' = inflight \cup {Head(ready)}
            /\ taskState' = [taskState EXCEPT ![Head(ready)] = "running"]
            /\ UNCHANGED schedPc
       ELSE /\ schedPc' = "join"
            /\ UNCHANGED <<tasks, inflight, taskState>>
    /\ UNCHANGED <<taskList, dagResult, reverse_edges, indegree, completed,
                   shutdown, runResult, joinLog>>

\* line 112: pop_front returns None
LaunchEnd ==
    /\ schedPc = "launch"
    /\ ready = <<>>
    /\ schedPc' = "join"
    /\ UNCHANGED <<taskList, dagResult, tasks, reverse_edges, indegree, ready,
                   inflight, completed, taskState, shutdown, runResult, joinLog>>

\* lines 129-131: join_next on an empty JoinSet returns None at once
JoinNone ==
    /\ schedPc = "join"
    /\ inflight = {}
    /\ schedPc' = "loop"
    /\ UNCHANGED <<taskList, dagResult, tasks, reverse_edges, indegree, ready,
                   inflight, completed, taskState, shutdown, runResult, joinLog>>

\* A spawned task body ends: Ok(()), Err(e) or a panic.
TaskOutcomes == {"ok", "err", "panic"}

TaskFinish(t, o) ==
    /\ taskState[t] = "running"
    /\ t \in inflight
    /\ taskState' = [taskState EXCEPT ![t] = o]
    /\ completed' = Append(completed, t)

TaskEnds ==
    /\ \E t \in DOMAIN taskState : \E o \in TaskOutcomes : TaskFinish(t, o)
    /\ UNCHANGED <<taskList, dagResult, tasks, reverse_edges, indegree, ready,
                   inflight, shutdown, schedPc, runResult, joinLog>>

\* run returns while tasks are in the JoinSet: dropping a JoinSet aborts
\* every task still in it.
DropJoinSet(ts, left) ==
    [t \in DOMAIN ts |->
        IF t \in left /\ ts[t] = "running" THEN "aborted" ELSE ts[t]]

\* lines 139-150: the dependents of a task joined with Ok
DecrementBy(name, t) == reverse_edges[name][t]

\* faulty variant: every dependent is pushed, whatever is left of its indegree
NewlyReadyAnyDependent(name) ==
    {t \in DOMAIN indegree : DecrementBy(name, t) > 0 /\ ~Requested}

\* lines 146-149: the dependents whose indegree reached zero
NewlyReady(name) ==
    {t \in DOMAIN indegree :
        /\ DecrementBy(name, t) > 0
        /\ indegree[t] - DecrementBy(name, t) = 0
        /\ ~Requested}

\* faulty variant: a task error is dropped and the run goes on
EndsRunNever(res) == FALSE

\* line 135: the result of the joined task ends the run
EndsRun(res) == res = "err"

\* lines 129-153: join_next returns the task that completed first
JoinNext ==
    /\ schedPc = "join"
    /\ completed /= <<>>
    /\ LET name == Head(completed)
           res == taskState[name]
           left == inflight \ {name}
       IN /\ completed' = Tail(completed)
          /\ joinLog' = Append(joinLog, name)
          /\ IF res = "panic"
             THEN /\ runResult' = [kind |-> "JoinErr", task |-> name]
                  /\ schedPc' = "done"
                  /\ taskState' = DropJoinSet(taskState, left)
                  /\ inflight' = {}
                  /\ UNCHANGED <<indegree, ready>>
             ELSE IF EndsRun(res)
             THEN /\ runResult' = [kind |-> "Err", task |-> name]
                  /\ schedPc' = "done"
                  /\ taskState' = DropJoinSet(taskState, left)
                  /\ inflight' = {}
                  /\ UNCHANGED <<indegree, ready>>
             ELSE /\ indegree' = [t \in DOMAIN indegree |->
                                     indegree[t] - DecrementBy(name, t)]
                  /\ \E p \in Perms(NewlyReady(name)) : ready' = ready \o p
                  /\ inflight' = left
                  /\ schedPc' = "loop"
                  /\ UNCHANGED <<runResult, taskState>>
    /\ UNCHANGED <<taskList, dagResult, tasks, reverse_edges, shutdown>>

SchedInit ==
    /\ dagResult = "none"
    /\ tasks = {}
    /\ reverse_edges = <<>>
    /\ indegree = <<>>
    /\ ready = <<>>
    /\ inflight = {}
    /\ completed = <<>>
    /\ taskState = [t \in NamesOf(taskList) |-> "idle"]
    /\ shutdown = FALSE
    /\ schedPc = "new"
    /\ runResult = [kind |-> "none", task |-> None]
    /\ joinLog = <<>>

SchedNext ==
    \/ FromTasks
    \/ RunStart
    \/ LoopTop
    \/ LaunchOne
    \/ LaunchEnd
    \/ JoinNone
    \/ JoinNext
    \/ TaskEnds
    \/ SignalArrives

(***************************************************************************)
(* The GitOps forest (config/mod.rs, build_argocd_hierarchy): the paths    *)
(* apps/minecraft/mcproxy, apps/minecraft/servers/s1 and                   *)
(* apps/minecraft/servers/s2 give six nodes.                               *)
(***************************************************************************)
Nodes == {"apps", "minecraft", "mcproxy", "servers", "s1", "s2"}

Parent ==
    [n \in Nodes |->
        CASE n = "apps" -> None
          [] n = "minecraft" -> "apps"
          [] n = "mcproxy" -> "minecraft"
          [] n = "servers" -> "minecraft"
          [] OTHER -> "servers"]

\* the Application nodes, each bound to one chart
Applications == {"mcproxy", "s1", "s2"}

RECURSIVE AncestorChain(_)
\* the ancestors of a node, nearest first
AncestorChain(n) ==
    IF Parent[n] = None THEN <<>> ELSE <<Parent[n]>> \o AncestorChain(Parent[n])

(***************************************************************************)
(* tokio::sync::RwLock: readers share, a writer excludes, and waiters are  *)
(* served first come first served (a reader queues behind a waiting        *)
(* writer).                                                                *)
(***************************************************************************)
FreeLock == [w |-> None, r |-> {}, q |-> <<>>]

Holds(lk, c, m) == IF m = "w" THEN lk.w = c ELSE c \in lk.r

Grantable(lk, m) == lk.w = None /\ (m = "r" \/ lk.r = {})

Take(lk, c, m) ==
    IF m = "w" THEN [lk EXCEPT !.w = c] ELSE [lk EXCEPT !.r = @ \cup {c}]

\* read().await / write().await: taken at once when free and nobody waits
LockReq(lk, c, m) ==
    IF lk.q = <<>> /\ Grantable(lk, m)
    THEN Take(lk, c, m)
    ELSE [lk EXCEPT !.q = Append(@, [c |-> c, m |-> m])]

RECURSIVE Grant(_)
Grant(lk) ==
    IF lk.q = <<>> \/ ~Grantable(lk, Head(lk.q).m)
    THEN lk
    ELSE Grant(Take([lk EXCEPT !.q = Tail(@)], Head(lk.q).c, Head(lk.q).m))

\* a guard of the lock is dropped
LockRel(lk, c, m) ==
    Grant(IF m = "w" THEN [lk EXCEPT !.w = None] ELSE [lk EXCEPT !.r = @ \ {c}])

(***************************************************************************)
(* Frames of the async call stack of one caller.                           *)
(***************************************************************************)
NoRet == [kind |-> None, td |-> 0, err |-> None]
RetOk(t) == [kind |-> "Ok", td |-> t, err |-> None]
RetErr(e) == [kind |-> "Err", td |-> 0, err |-> e]

TearFrame(n) ==
    [op |-> "tear", node |-> n, td |-> 0, pc |-> "t_read", up |-> 0,
     orig |-> FALSE, err |-> None]

CloseFrame(t) ==
    [op |-> "close", node |-> tds[t].argocd, td |-> t, pc |-> "c_read",
     up |-> 0, orig |-> FALSE, err |-> None]

Top(c) == stack[c][Len(stack[c])]

AtPc(c, pc) == stack[c] /= <<>> /\ Top(c).pc = pc

Below(c) == SubSeq(stack[c], 1, Len(stack[c]) - 1)

\* the top frame is replaced
Goto(c, f) == [stack EXCEPT ![c] = Below(c) \o <<f>>]

\* the top frame is replaced and awaits the frame pushed over it
Call(c, f, callee) == [stack EXCEPT ![c] = Below(c) \o <<f, callee>>]

\* the top frame returns
Return(c) == [stack EXCEPT ![c] = Below(c)]

InRollback(c) == \E i \in DOMAIN stack[c] : stack[c][i].pc = "t_rb"

\* AtomicUsize::fetch_sub wraps below zero; -1 stands for usize::MAX
UsizeMax == -1
WrappingDec(n) == IF n = 0 THEN UsizeMax ELSE n - 1

\* ArgoCdError::KubeError, told apart by the call that failed
KubeError(n, at) == [node |-> n, at |-> at, nth |-> faults + 1]

\* the Kubernetes API may fail a request
MayFail == faults < MaxFaults

(***************************************************************************)
(* History of one caller's current top-level call.                         *)
(***************************************************************************)
NoLog ==
    [op |-> None, target |-> None, failedAt |-> None, restored |-> <<>>]

\* the guards of Teardown t that are owned outside Teardown objects: held
\* by callers, on their way out of tear(), upstream locals of tear frames,
\* cached in charts, and handed to a close() that has not yet decremented
GuardsOutside(t) ==
    LET inHeld(c) == CopiesIn(t, held[c])
        inRet(c) == IF ret[c].kind = "Ok" /\ ret[c].td = t THEN 1 ELSE 0
        inStack(c) ==
            Cardinality({i \in DOMAIN stack[c] :
                \/ /\ stack[c][i].op = "tear"
                   /\ stack[c][i].up = t
                   /\ stack[c][i].pc \in {"t_get", "t_patch"}
                \/ /\ stack[c][i].op = "close"
                   /\ stack[c][i].td = t
                   /\ stack[c][i].pc = "c_read"})
        inCharts ==
            Cardinality({ch \in DOMAIN chartTear :
                chartTear[ch].kind = "Ok" /\ chartTear[ch].td = t})
        RECURSIVE Sum(_)
        Sum(S) ==
            IF S = {} THEN 0
            ELSE LET c == CHOOSE x \in S : TRUE
                 IN inHeld(c) + inRet(c) + inStack(c) + Sum(S \ {c})
    IN Sum(DOMAIN stack) + inCharts

RECURSIVE GuardRefs(_)
\* every guard of Teardown t that is alive: the ones owned outside, and the
\* upstream fields of the Teardown objects that are alive themselves (the
\* Arc is held by the node, by a guard, or by a close() at work on it)
GuardRefs(t) ==
    GuardsOutside(t)
    + Cardinality({k \in DOMAIN tds :
          /\ tds[k].upstream = t
          /\ \/ tear[tds[k].argocd].td = k
             \/ GuardRefs(k) > 0
             \/ \E c \in DOMAIN stack : \E i \in DOMAIN stack[c] :
                   stack[c][i].op = "close" /\ stack[c][i].td = k})

(***************************************************************************)
(* TearingArgoCd::tear (tearing.rs lines 45-92).  One action per await:    *)
(* the action runs the code from the await that completed to the next      *)
(* one.                                                                    *)
(***************************************************************************)
\* tear(n) is called: line 46, self.read().await is requested
EnterTear(c, n, under) ==
    /\ stack' = [stack EXCEPT ![c] = under \o <<TearFrame(n)>>]
    /\ nodeLock' = [nodeLock EXCEPT ![n] = LockReq(@, c, "r")]

\* close(g) is called: line 103 sets dropped, lines 104-107 request the
\* Teardown's read lock
EnterClose(c, t, under) ==
    /\ stack' = [stack EXCEPT ![c] = under \o <<CloseFrame(t)>>]
    /\ tdLock' = [tdLock EXCEPT ![t] = LockReq(@, c, "r")]

\* lines 46-53: the node is read; a recorded teardown is reused
TearRead(c) ==
    /\ AtPc(c, "t_read")
    /\ LET f == Top(c)
           n == f.node
       IN /\ Holds(nodeLock[n], c, "r")
          /\ CASE tear[n].kind = "Ok" ->
                    \* line 48 / 158: generate_guard asks for the read lock
                    /\ stack' = Goto(c, [f EXCEPT !.pc = "t_gg", !.td = tear[n].td])
                    /\ tdLock' = [tdLock EXCEPT ![tear[n].td] = LockReq(@, c, "r")]
                    /\ UNCHANGED <<nodeLock, ret>>
               [] tear[n].kind = "Err" ->
                    \* line 49
                    /\ stack' = Return(c)
                    /\ ret' = [ret EXCEPT ![c] = RetErr(tear[n].err)]
                    /\ nodeLock' = [nodeLock EXCEPT ![n] = LockRel(@, c, "r")]
                    /\ UNCHANGED tdLock
               [] OTHER ->
                    \* line 53: the read guard is dropped, write() is requested
                    /\ stack' = Goto(c, [f EXCEPT !.pc = "t_write"])
                    /\ nodeLock' = [nodeLock EXCEPT ![n] =
                                       LockReq(LockRel(@, c, "r"), c, "w")]
                    /\ UNCHANGED <<tdLock, ret>>
    /\ UNCHANGED <<automated, tear, tds, held, calls, faults, tearLog, restoreFailed>>

\* lines 48, 157-163: generate_guard on the recorded teardown
TearFastGuard(c) ==
    /\ AtPc(c, "t_gg")
    /\ LET f == Top(c)
       IN /\ Holds(tdLock[f.td], c, "r")
          /\ tds' = [tds EXCEPT ![f.td].counter = @ + 1]
          /\ tdLock' = [tdLock EXCEPT ![f.td] = LockRel(@, c, "r")]
          /\ nodeLock' = [nodeLock EXCEPT ![f.node] = LockRel(@, c, "r")]
          /\ stack' = Return(c)
          /\ ret' = [ret EXCEPT ![c] = RetOk(f.td)]
    /\ UNCHANGED <<automated, tear, held, calls, faults, tearLog, restoreFailed>>

\* lines 53-61: the write lock is held; without another look at the node's
\* tear field the parent is torn first
TearWrite(c) ==
    /\ AtPc(c, "t_write")
    /\ LET f == Top(c)
           n == f.node
       IN /\ Holds(nodeLock[n], c, "w")
          /\ IF Parent[n] /= None
             THEN /\ stack' = Call(c, [f EXCEPT !.pc = "t_up"], TearFrame(Parent[n]))
                  /\ nodeLock' = [nodeLock EXCEPT ![Parent[n]] = LockReq(@, c, "r")]
                  /\ UNCHANGED tdLock
             ELSE /\ stack' = Goto(c, [f EXCEPT !.pc = "t_get"])
                  /\ UNCHANGED <<nodeLock, tdLock>>
    /\ UNCHANGED <<automated, tear, tds, ret, held, calls, faults, tearLog, restoreFailed>>

\* lines 56-59: the parent's tear returned; `?` passes its error on
TearUp(c) ==
    /\ AtPc(c, "t_up")
    /\ ret[c].kind /= None
    /\ LET f == Top(c)
       IN IF ret[c].kind = "Err"
          THEN /\ stack' = Return(c)
               /\ nodeLock' = [nodeLock EXCEPT ![f.node] = LockRel(@, c, "w")]
               /\ UNCHANGED ret
          ELSE /\ stack' = Goto(c, [f EXCEPT !.pc = "t_get", !.up = ret[c].td])
               /\ ret' = [ret EXCEPT ![c] = NoRet]
               /\ UNCHANGED nodeLock
    /\ UNCHANGED <<automated, tear, tds, tdLock, held, calls, faults, tearLog, restoreFailed>>

\* lines 63-76: sync_teardown failed with e; the upstream guard is closed
\* and e is returned (the node's tear field is not written)
SyncTeardownFailed(c, f, e) ==
    /\ tearLog' = [tearLog EXCEPT ![c].failedAt = f.node]
    /\ UNCHANGED tear
    /\ IF f.up /= 0
       THEN /\ EnterClose(c, f.up, Below(c) \o <<[f EXCEPT !.pc = "t_rb", !.err = e, !.up = 0]>>)
            /\ UNCHANGED <<nodeLock, ret>>
       ELSE /\ stack' = Return(c)
            /\ ret' = [ret EXCEPT ![c] = RetErr(e)]
            /\ nodeLock' = [nodeLock EXCEPT ![f.node] = LockRel(@, c, "w")]
            /\ UNCHANGED tdLock

\* lines 177-181: api.get answers; line 190: the pause patch is sent
TearGet(c) ==
    /\ AtPc(c, "t_get")
    /\ LET f == Top(c)
       IN \/ /\ stack' = Goto(c, [f EXCEPT !.pc = "t_patch", !.orig = automated[f.node]])
             /\ UNCHANGED <<tear, nodeLock, tdLock, ret, faults, tearLog>>
          \/ /\ MayFail
             /\ faults' = faults + 1
             /\ SyncTeardownFailed(c, f, KubeError(f.node, "get"))
    /\ UNCHANGED <<automated, tds, held, calls, restoreFailed>>

\* lines 183-195: the JSON patch `remove /spec/syncPolicy/automated` answers.
\* RFC 6902: a remove whose target does not exist fails.
TearPatch(c) ==
    /\ AtPc(c, "t_patch")
    /\ LET f == Top(c)
           n == f.node
           t == Len(tds) + 1
       IN \/ /\ automated[n]
             /\ automated' = [automated EXCEPT ![n] = FALSE]
             \* lines 81-91
             /\ tds' = Append(tds, [argocd |-> n, upstream |-> f.up,
                                    orig |-> f.orig, counter |-> 0])
             /\ tdLock' = Append(tdLock, LockReq(FreeLock, c, "r"))
             /\ tear' = [tear EXCEPT ![n] = [kind |-> "Ok", td |-> t, err |-> None]]
             /\ stack' = Goto(c, [f EXCEPT !.pc = "t_gg2", !.td = t, !.up = 0])
             /\ UNCHANGED <<nodeLock, ret, faults, tearLog>>
          \/ /\ ~automated[n]
             /\ SyncTeardownFailed(c, f, KubeError(n, "pause"))
             /\ UNCHANGED <<automated, tds, faults>>
          \/ /\ automated[n]
             /\ MayFail
             /\ faults' = faults + 1
             /\ SyncTeardownFailed(c, f, KubeError(n, "pause"))
             /\ UNCHANGED <<automated, tds>>
    /\ UNCHANGED <<held, calls, restoreFailed>>

\* lines 91, 157-163: generate_guard on the new teardown; the write guard
\* of the node is dropped on return
TearNewGuard(c) ==
    /\ AtPc(c, "t_gg2")
    /\ LET f == Top(c)
       IN /\ Holds(tdLock[f.td], c, "r")
          /\ tds' = [tds EXCEPT ![f.td].counter = @ + 1]
          /\ tdLock' = [tdLock EXCEPT ![f.td] = LockRel(@, c, "r")]
          /\ nodeLock' = [nodeLock EXCEPT ![f.node] = LockRel(@, c, "w")]
          /\ stack' = Return(c)
          /\ ret' = [ret EXCEPT ![c] = RetOk(f.td)]
    /\ UNCHANGED <<automated, tear, held, calls, faults, tearLog, restoreFailed>>

\* lines 64-75: the rollback close returned (its error is only logged)
TearRollbackDone(c) ==
    /\ AtPc(c, "t_rb")
    /\ ret[c].kind /= None
    /\ LET f == Top(c)
       IN /\ stack' = Return(c)
          /\ ret' = [ret EXCEPT ![c] = RetErr(f.err)]
          /\ nodeLock' = [nodeLock EXCEPT ![f.node] = LockRel(@, c, "w")]
    /\ UNCHANGED <<automated, tear, tds, tdLock, held, calls, faults, tearLog, restoreFailed>>

(***************************************************************************)
(* TearingArgoCdGuard::close (tearing.rs lines 102-134)                    *)
(***************************************************************************)
\* faulty variant: compares the value left in the counter, not the one
\* fetch_sub returned
IsLastGuardNewValue(cnt) == cnt = 0

\* line 111: the value fetch_sub returned for which close restores the node
IsLastGuard(cnt) == cnt = 1

\* lines 104-112: fetch_sub under the read lock
CloseRead(c) ==
    /\ AtPc(c, "c_read")
    /\ LET f == Top(c)
           cnt == tds[f.td].counter
       IN /\ Holds(tdLock[f.td], c, "r")
          /\ tds' = [tds EXCEPT ![f.td].counter = WrappingDec(cnt)]
          /\ IF IsLastGuard(cnt)
             THEN /\ tdLock' = [tdLock EXCEPT ![f.td] =
                                   LockReq(LockRel(@, c, "r"), c, "w")]
                  /\ stack' = Goto(c, [f EXCEPT !.pc = "c_tw"])
                  /\ UNCHANGED ret
             ELSE /\ tdLock' = [tdLock EXCEPT ![f.td] = LockRel(@, c, "r")]
                  /\ stack' = Return(c)
                  /\ ret' = [ret EXCEPT ![c] = RetOk(0)]
    /\ UNCHANGED <<automated, tear, nodeLock, held, calls, faults, tearLog, restoreFailed>>

\* lines 112-114: the Teardown's write lock is held; the node's is requested
CloseTdWrite(c) ==
    /\ AtPc(c, "c_tw")
    /\ LET f == Top(c)
       IN /\ Holds(tdLock[f.td], c, "w")
          /\ nodeLock' = [nodeLock EXCEPT ![f.node] = LockReq(@, c, "w")]
          /\ stack' = Goto(c, [f EXCEPT !.pc = "c_aw"])
    /\ UNCHANGED <<automated, tear, tds, tdLock, ret, held, calls, faults, tearLog, restoreFailed>>

\* lines 114-121: the node's write lock is held; the restore patch is sent
CloseNodeWrite(c) ==
    /\ AtPc(c, "c_aw")
    /\ LET f == Top(c)
       IN /\ Holds(nodeLock[f.node], c, "w")
          /\ stack' = Goto(c, [f EXCEPT !.pc = "c_patch"])
    /\ UNCHANGED <<automated, tear, tds, nodeLock, tdLock, ret, held, calls,
                   faults, tearLog, restoreFailed>>

\* both write guards of close are dropped on return
CloseUnlock(c, f) ==
    /\ nodeLock' = [nodeLock EXCEPT ![f.node] = LockRel(@, c, "w")]
    /\ tdLock' = [tdLock EXCEPT ![f.td] = LockRel(@, c, "w")]

\* faulty variant: close restores its own node only
ClosesUpstreamNever(t) == FALSE

\* line 128: close goes on to the upstream guard of the teardown
ClosesUpstream(t) == tds[t].upstream /= 0

\* lines 116-133: the server-side apply of the captured syncPolicy answers
\* faulty variant: the restore patch leaves the application as it is
SyncTearupSkipped(t) == automated[tds[t].argocd]

\* sync_tearup (lines 205-232): the policy the restore patch writes back
SyncTearup(t) == tds[t].orig

\* faulty variant: a close whose restore failed forgets the teardown state
TearAfterFailedRestoreCleared(n) == [kind |-> None, td |-> 0, err |-> None]

\* line 121: `?` returns before line 131, the node keeps its teardown state
TearAfterFailedRestore(n) == tear[n]

ClosePatch(c) ==
    /\ AtPc(c, "c_patch")
    /\ LET f == Top(c)
           t == f.td
       IN \/ /\ automated' = [automated EXCEPT ![f.node] = SyncTearup(t)]
             /\ UNCHANGED restoreFailed
             /\ tearLog' = IF InRollback(c)
                           THEN [tearLog EXCEPT ![c].restored = Append(@, f.node)]
                           ELSE tearLog
             /\ IF ClosesUpstream(t)
                THEN \* lines 128-129: upstream.take(), close it in turn
                     /\ tds' = [tds EXCEPT ![t].upstream = 0]
                     /\ stack' = [stack EXCEPT ![c] =
                                     Below(c) \o <<[f EXCEPT !.pc = "c_up"],
                                                   CloseFrame(tds[t].upstream)>>]
                     /\ tdLock' = [tdLock EXCEPT ![tds[t].upstream] =
                                      LockReq(@, c, "r")]
                     /\ UNCHANGED <<tear, nodeLock, ret>>
                ELSE \* line 131
                     /\ tear' = [tear EXCEPT ![f.node] =
                                    [kind |-> None, td |-> 0, err |-> None]]
                     /\ CloseUnlock(c, f)
                     /\ stack' = Return(c)
                     /\ ret' = [ret EXCEPT ![c] = RetOk(0)]
                     /\ UNCHANGED tds
             /\ UNCHANGED faults
          \/ \* line 121: `?` returns the error of the patch
             /\ MayFail
             /\ faults' = faults + 1
             /\ restoreFailed' = restoreFailed \cup {f.node}
             /\ CloseUnlock(c, f)
             /\ stack' = Return(c)
             /\ ret' = [ret EXCEPT ![c] = RetErr(KubeError(f.node, "restore"))]
             /\ tear' = [tear EXCEPT ![f.node] = TearAfterFailedRestore(f.node)]
             /\ UNCHANGED <<automated, tds, tearLog>>
    /\ UNCHANGED <<held, calls>>

\* lines 129-133: the upstream close returned
CloseUp(c) ==
    /\ AtPc(c, "c_up")
    /\ ret[c].kind /= None
    /\ LET f == Top(c)
       IN /\ IF ret[c].kind = "Err"
             THEN UNCHANGED <<tear, ret>>
             ELSE /\ tear' = [tear EXCEPT ![f.node] =
                                 [kind |-> None, td |-> 0, err |-> None]]
                  /\ ret' = [ret EXCEPT ![c] = RetOk(0)]
          /\ CloseUnlock(c, f)
          /\ stack' = Return(c)
    /\ UNCHANGED <<automated, tds, held, calls, faults, tearLog, restoreFailed>>

\* one step of the tear / close code of caller c
TearStep(c) ==
    \/ TearRead(c)
    \/ TearFastGuard(c)
    \/ TearWrite(c)
    \/ TearUp(c)
    \/ TearGet(c)
    \/ TearPatch(c)
    \/ TearNewGuard(c)
    \/ TearRollbackDone(c)
    \/ CloseRead(c)
    \/ CloseTdWrite(c)
    \/ CloseNodeWrite(c)
    \/ ClosePatch(c)
    \/ CloseUp(c)

(***************************************************************************)
(* SpecTear: callers that tear Application nodes and close the guards they *)
(* hold, in any interleaving.                                              *)
(***************************************************************************)
TearCallers == {"c1", "c2"}

Idle(c) == stack[c] = <<>> /\ ret[c].kind = None

\* a caller calls tear(n)
CallTear(c, n) ==
    /\ Idle(c)
    /\ calls[c] < MaxCalls
    /\ calls' = [calls EXCEPT ![c] = @ + 1]
    /\ tearLog' = [tearLog EXCEPT ![c] = [NoLog EXCEPT !.op = "tear", !.target = n]]
    /\ EnterTear(c, n, <<>>)
    /\ UNCHANGED <<automated, tear, tds, tdLock, ret, held, faults, restoreFailed>>

\* a caller calls close() on a guard it holds
CallClose(c, t) ==
    /\ Idle(c)
    /\ BagIn(t, held[c])
    /\ held' = [held EXCEPT ![c] = @ (-) SetToBag({t})]
    /\ tearLog' = [tearLog EXCEPT ![c] = [NoLog EXCEPT !.op = "close"]]
    /\ EnterClose(c, t, <<>>)
    /\ UNCHANGED <<automated, tear, tds, nodeLock, ret, calls, faults, restoreFailed>>

\* the caller's call returned: a guard is kept, an error is dropped
CallReturns(c) ==
    /\ stack[c] = <<>>
    /\ ret[c].kind /= None
    /\ ret' = [ret EXCEPT ![c] = NoRet]
    /\ held' = IF ret[c].kind = "Ok" /\ ret[c].td /= 0
               THEN [held EXCEPT ![c] = @ (+) SetToBag({ret[c].td})]
               ELSE held
    /\ UNCHANGED <<automated, tear, tds, nodeLock, tdLock, stack, calls,
                   faults, tearLog, restoreFailed>>

TearInitFor(callers) ==
    /\ automated = [n \in Nodes |-> TRUE]
    /\ tear = [n \in Nodes |-> [kind |-> None, td |-> 0, err |-> None]]
    /\ tds = <<>>
    /\ nodeLock = [n \in Nodes |-> FreeLock]
    /\ tdLock = <<>>
    /\ stack = [c \in callers |-> <<>>]
    /\ ret = [c \in callers |-> NoRet]
    /\ held = [c \in callers |-> EmptyBag]
    /\ calls = [c \in callers |-> 0]
    /\ faults = 0
    /\ restoreFailed = {}
    /\ tearLog = [c \in callers |-> NoLog]

TearInit == TearInitFor({})

SchedIdle ==
    /\ taskList = <<>>
    /\ SchedInit

\* no wait loop has been entered
NoWait ==
    [kind |-> None, cfg |-> None, pc |-> "idle", elapsed |-> 0, errors |-> 0,
     first |-> TRUE, last |-> None, result |-> None, reported |-> 0,
     notyet |-> 0]

\* execute_job has not been called
NoExec ==
    [required |-> TRUE, polling |-> None, pc |-> "idle", failed |-> <<>>,
     err |-> None, result |-> None]

\* no shutdown task has been started
NoShut == [pc |-> "idle"]

\* nothing has been parsed
NoConf == [raw |-> None, pc |-> "idle", result |-> None]

DailyIdle ==
    /\ chartTear = <<>>
    /\ phasePc = "idle"
    /\ routinePc = [at |-> "idle", i |-> 0]
    /\ routineResult = None
    /\ wait = NoWait
    /\ exec = NoExec
    /\ conf = NoConf
    /\ chart = <<>>
    /\ shut = NoShut

(***************************************************************************)
(* The daily routine (routine/daily): proxy chart mcproxy and the server   *)
(* charts s1 and s2, no jobs.  Each chart is bound to the Application node *)
(* of the same name.                                                       *)
(***************************************************************************)
\* config.mcservers, a BTreeMap: iteration in key order
McServers == <<"s1", "s2">>

\* the order in which the finalizer releases the charts
ChartOrder == <<"mcproxy">> \o McServers

Charts == Range(ChartOrder)

Teardown == "argocd_teardown"

\* faulty variant: the server shutdowns wait for argocd_teardown only
DailyTasksServersEarly ==
    << [name |-> Teardown, deps |-> <<>>],
       [name |-> "shutdown_mcproxy", deps |-> <<Teardown>>] >>
    \o [i \in DOMAIN McServers |->
          [name |-> "shutdown_mcserver/" \o McServers[i],
           deps |-> <<Teardown>>]]
    \o [i \in DOMAIN McServers |->
          [name |-> "relaunch_mcserver/" \o McServers[i],
           deps |-> <<"shutdown_mcserver/" \o McServers[i]>>]]
    \o << [name |-> "relaunch_mcproxy",
           deps |-> [i \in DOMAIN McServers |->
                        "relaunch_mcserver/" \o McServers[i]]
                    \o <<"shutdown_mcproxy">>] >>

\* build_daily_tasks (mod.rs lines 62-158) for this configuration, every
\* server being required_to_start
DailyTasks ==
    << [name |-> Teardown, deps |-> <<>>],
       [name |-> "shutdown_mcproxy", deps |-> <<Teardown>>] >>
    \o [i \in DOMAIN McServers |->
          [name |-> "shutdown_mcserver/" \o McServers[i],
           deps |-> <<"shutdown_mcproxy">>]]
    \o [i \in DOMAIN McServers |->
          [name |-> "relaunch_mcserver/" \o McServers[i],
           deps |-> <<"shutdown_mcserver/" \o McServers[i]>>]]
    \o << [name |-> "relaunch_mcproxy",
           deps |-> [i \in DOMAIN McServers |->
                        "relaunch_mcserver/" \o McServers[i]]
                    \o <<"shutdown_mcproxy">>] >>

NoTear == [kind |-> None, td |-> 0, err |-> None]

\* the tasks whose bodies do not touch the ArgoCD applications end with any
\* outcome
OtherTaskEnds ==
    /\ \E t \in DOMAIN taskState \ {Teardown} :
          \E o \in TaskOutcomes : TaskFinish(t, o)
    /\ UNCHANGED <<taskList, dagResult, tasks, reverse_edges, indegree, ready,
                   inflight, shutdown, schedPc, runResult, joinLog>>

\* the argocd_teardown task ends with outcome o
PhaseEnds(o) ==
    /\ phasePc' = "done"
    /\ TaskFinish(Teardown, o)
    /\ UNCHANGED <<taskList, dagResult, tasks, reverse_edges, indegree, ready,
                   inflight, shutdown, schedPc, runResult, joinLog>>

\* phase_argocd_teardown lines 16-21, minecraft_chart.rs lines 74-81: the
\* spawned task starts to tear the proxy chart's application
PhaseStart ==
    /\ phasePc = "idle"
    /\ taskState[Teardown] = "running"
    /\ phasePc' = "proxy"
    /\ EnterTear("mcproxy", "mcproxy", <<>>)
    /\ tearLog' = [tearLog EXCEPT !["mcproxy"] =
                      [NoLog EXCEPT !.op = "tear", !.target = "mcproxy"]]
    /\ UNCHANGED <<automated, tear, tds, tdLock, ret, held, calls, faults,
                   restoreFailed, chartTear, routinePc, routineResult, wait, exec, conf,
                   chart, shut, schedVars>>

\* minecraft_chart.rs lines 81-90: the chart keeps the guard or the error
Memoised(r) == [kind |-> r.kind, td |-> r.td, err |-> r.err]

\* phase_argocd_teardown lines 21-48: `?` on the proxy's result, then the
\* futures of all servers are started by buffer_unordered
PhaseProxyDone ==
    /\ phasePc = "proxy"
    /\ stack["mcproxy"] = <<>>
    /\ ret["mcproxy"].kind /= None
    /\ chartTear' = [chartTear EXCEPT !["mcproxy"] = Memoised(ret["mcproxy"])]
    /\ ret' = [ret EXCEPT !["mcproxy"] = NoRet]
    /\ IF ret["mcproxy"].kind = "Ok"
       THEN /\ phasePc' = "fanout"
            /\ stack' = [c \in DOMAIN stack |->
                            IF c \in Range(McServers)
                            THEN <<TearFrame(c)>> ELSE stack[c]]
            /\ nodeLock' = [n \in Nodes |->
                               IF n \in Range(McServers)
                               THEN LockReq(nodeLock[n], n, "r")
                               ELSE nodeLock[n]]
            /\ tearLog' = [c \in DOMAIN tearLog |->
                              IF c \in Range(McServers)
                              THEN [NoLog EXCEPT !.op = "tear", !.target = c]
                              ELSE tearLog[c]]
            /\ UNCHANGED schedVars
       ELSE /\ PhaseEnds("err")
            /\ UNCHANGED <<stack, nodeLock, tearLog>>
    /\ UNCHANGED <<automated, tear, tds, tdLock, held, calls, faults,
                   restoreFailed, routinePc, routineResult, wait, exec, conf,
                   chart, shut>>

\* a server future that is still running when the stream is dropped
InProgress(d) == stack[d] /= <<>>

\* tearing.rs lines 137-151: a future dropped while it owns a guard that was
\* not closed (the `upstream` local of tear, lines 56-61) panics
OwnsOpenGuard(d) ==
    \/ \E i \in DOMAIN stack[d] :
          /\ stack[d][i].op = "tear"
          /\ stack[d][i].up /= 0
          /\ stack[d][i].pc \in {"t_get", "t_patch"}
    \/ ret[d].kind = "Ok" /\ ret[d].td /= 0

\* the lock guards and lock requests of dropped futures go away
Purge(lk, D) ==
    Grant([w |-> IF lk.w \in D THEN None ELSE lk.w,
           r |-> lk.r \ D,
           q |-> SelectSeq(lk.q, LAMBDA e : e.c \notin D)])

\* a patch request in flight when its future is dropped may still be applied
InFlightPatch(d) ==
    IF InProgress(d) /\ Top(d).pc \in {"t_patch", "c_patch"}
    THEN {Top(d).node} ELSE {}

\* what the in-flight patch of a dropped future sets, if it is applied
PatchedValue(d) ==
    IF Top(d).pc = "t_patch" THEN FALSE ELSE tds[Top(d).td].orig

\* phase_argocd_teardown lines 30-49: one server future completed
ServerDone(ch) ==
    /\ phasePc = "fanout"
    /\ stack[ch] = <<>>
    /\ ret[ch].kind /= None
    /\ LET others == Range(McServers) \ {ch}
           \* futures that completed before this one were yielded before it
           before == {d \in others : ~InProgress(d) /\ ret[d].kind /= None}
           dropped == {d \in others : InProgress(d)}
       IN IF ret[ch].kind = "Ok"
          THEN /\ chartTear' = [chartTear EXCEPT ![ch] = Memoised(ret[ch])]
               /\ ret' = [ret EXCEPT ![ch] = NoRet]
               /\ phasePc' = IF \A d \in others : chartTear[d].kind = "Ok"
                             THEN "sleep" ELSE phasePc
               /\ UNCHANGED <<automated, stack, nodeLock, tdLock, schedVars>>
          ELSE \* try_for_each returns the first error and the stream, with
               \* the futures still in it, is dropped
               /\ chartTear' = [c \in DOMAIN chartTear |->
                                  IF c \in before \cup {ch}
                                  THEN Memoised(ret[c]) ELSE chartTear[c]]
               /\ ret' = [c \in DOMAIN ret |->
                            IF c \in others \cup {ch} THEN NoRet ELSE ret[c]]
               /\ stack' = [c \in DOMAIN stack |->
                              IF c \in dropped THEN <<>> ELSE stack[c]]
               /\ nodeLock' = [n \in Nodes |-> Purge(nodeLock[n], dropped)]
               /\ tdLock' = [t \in DOMAIN tdLock |-> Purge(tdLock[t], dropped)]
               /\ \E applied \in SUBSET UNION {InFlightPatch(d) : d \in dropped} :
                     automated' = [n \in Nodes |->
                         IF n \in applied
                         THEN PatchedValue(CHOOSE d \in dropped :
                                              n \in InFlightPatch(d))
                         ELSE automated[n]]
               /\ IF \E d \in dropped : OwnsOpenGuard(d)
                  THEN PhaseEnds("panic")
                  ELSE PhaseEnds("err")
    /\ UNCHANGED <<tear, tds, held, calls, faults, restoreFailed, tearLog,
                   routinePc, routineResult, wait, exec, conf,
                   chart, shut>>

\* phase_argocd_teardown lines 51-53: the sleep is over, the task returns Ok
PhaseSleepDone ==
    /\ phasePc = "sleep"
    /\ PhaseEnds("ok")
    /\ UNCHANGED <<tearVars, chartTear, routinePc, routineResult, wait, exec, conf,
                   chart, shut>>

(***************************************************************************)
(* DailyRoutineContext::run and the finalizer                              *)
(***************************************************************************)
\* mod.rs lines 46-48: the task list is built and handed to from_tasks
RunBegins ==
    /\ routinePc.at = "new"
    /\ routinePc' = [at |-> "run", i |-> 0]
    /\ FromTasks
    /\ UNCHANGED <<tearVars, chartTear, phasePc, routineResult, wait, exec, conf,
                   chart, shut>>

\* mod.rs lines 49-58: scheduler.run returned; the finalizer starts
RunFinished ==
    /\ routinePc.at = "run"
    /\ schedPc = "done"
    /\ routinePc' = [at |-> "release", i |-> 1]
    /\ UNCHANGED <<schedVars, tearVars, chartTear, phasePc, routineResult, wait, exec, conf,
                   chart, shut>>

\* faulty variant: the finalizer forgets the proxy chart
ReleaseOrderServersOnly == McServers

\* finalizer.rs lines 16 and 22: mcproxy first, then mcservers.iter()
ReleaseOrder == <<"mcproxy">> \o McServers

\* finalizer.rs lines 16, 23 and minecraft_chart.rs lines 101-107: the next
\* chart's cached guard is taken and closed
FinalizerRelease ==
    /\ routinePc.at = "release"
    /\ routinePc.i \in DOMAIN ReleaseOrder
    /\ LET ch == ReleaseOrder[routinePc.i]
       IN /\ chartTear' = [chartTear EXCEPT ![ch] = NoTear]
          /\ IF chartTear[ch].kind = "Ok"
             THEN /\ EnterClose(ch, chartTear[ch].td, <<>>)
                  /\ tearLog' = [tearLog EXCEPT ![ch] =
                                    [NoLog EXCEPT !.op = "close"]]
                  /\ routinePc' = [routinePc EXCEPT !.at = "closing"]
             ELSE /\ routinePc' = [routinePc EXCEPT !.i = @ + 1]
                  /\ UNCHANGED <<stack, tdLock, tearLog>>
    /\ UNCHANGED <<schedVars, automated, tear, tds, nodeLock, ret, held, calls,
                   faults, restoreFailed, phasePc, routineResult, wait, exec, conf,
                   chart, shut>>

\* faulty variant: a failed release ends the finalizer
AfterReleaseStopOnErr(i, kind) ==
    IF kind = "Err" THEN Len(ReleaseOrder) + 1 ELSE i + 1

\* finalizer.rs lines 16-28: whatever release returned, the next chart is next
AfterRelease(i, kind) == i + 1

\* finalizer.rs lines 16-28: the close returned; its error is only logged
FinalizerClosed ==
    /\ routinePc.at = "closing"
    /\ LET ch == ReleaseOrder[routinePc.i]
       IN /\ stack[ch] = <<>>
          /\ ret[ch].kind /= None
          /\ ret' = [ret EXCEPT ![ch] = NoRet]
    /\ routinePc' = [at |-> "release",
                     i |-> AfterRelease(routinePc.i, ret[ReleaseOrder[routinePc.i]].kind)]
    /\ UNCHANGED <<schedVars, automated, tear, tds, nodeLock, tdLock, stack,
                   held, calls, faults, restoreFailed, tearLog, chartTear,
                   phasePc, routineResult, wait, exec, conf,
                   chart, shut>>

\* finalizer.rs line 31: the result of the run is returned unchanged
FinalizerReturns ==
    /\ routinePc.at = "release"
    /\ routinePc.i \notin DOMAIN ReleaseOrder
    /\ routinePc' = [at |-> "done", i |-> 0]
    /\ routineResult' = runResult.kind
    /\ UNCHANGED <<wait, exec, conf, chart, shut>>
    /\ UNCHANGED <<schedVars, tearVars, chartTear, phasePc>>

InitDaily ==
    /\ taskList = DailyTasks
    /\ SchedInit
    /\ TearInitFor(Charts)
    /\ chartTear = [ch \in Charts |-> NoTear]
    /\ phasePc = "idle"
    /\ routinePc = [at |-> "new", i |-> 0]
    /\ routineResult = None
    /\ wait = NoWait
    /\ exec = NoExec
    /\ conf = NoConf
    /\ chart = <<>>
    /\ shut = NoShut

NextDaily ==
    \/ RunBegins
    \/ RunStart /\ UNCHANGED <<tearVars, dailyVars>>
    \/ LoopTop /\ UNCHANGED <<tearVars, dailyVars>>
    \/ LaunchOne /\ UNCHANGED <<tearVars, dailyVars>>
    \/ LaunchEnd /\ UNCHANGED <<tearVars, dailyVars>>
    \/ JoinNone /\ UNCHANGED <<tearVars, dailyVars>>
    \/ JoinNext /\ UNCHANGED <<tearVars, dailyVars>>
    \/ OtherTaskEnds /\ UNCHANGED <<tearVars, dailyVars>>
    \/ SignalArrives /\ UNCHANGED <<tearVars, dailyVars>>
    \/ PhaseStart
    \/ PhaseProxyDone
    \/ \E ch \in Range(McServers) : ServerDone(ch)
    \/ PhaseSleepDone
    \/ RunFinished
    \/ FinalizerRelease
    \/ FinalizerClosed
    \/ FinalizerReturns
    \/ \E c \in Charts : TearRead(c) /\ UNCHANGED <<schedVars, dailyVars>>
    \/ \E c \in Charts : TearFastGuard(c) /\ UNCHANGED <<schedVars, dailyVars>>
    \/ \E c \in Charts : TearWrite(c) /\ UNCHANGED <<schedVars, dailyVars>>
    \/ \E c \in Charts : TearUp(c) /\ UNCHANGED <<schedVars, dailyVars>>
    \/ \E c \in Charts : TearGet(c) /\ UNCHANGED <<schedVars, dailyVars>>
    \/ \E c \in Charts : TearPatch(c) /\ UNCHANGED <<schedVars, dailyVars>>
    \/ \E c \in Charts : TearNewGuard(c) /\ UNCHANGED <<schedVars, dailyVars>>
    \/ \E c \in Charts : TearRollbackDone(c) /\ UNCHANGED <<schedVars, dailyVars>>
    \/ \E c \in Charts : CloseRead(c) /\ UNCHANGED <<schedVars, dailyVars>>
    \/ \E c \in Charts : CloseTdWrite(c) /\ UNCHANGED <<schedVars, dailyVars>>
    \/ \E c \in Charts : CloseNodeWrite(c) /\ UNCHANGED <<schedVars, dailyVars>>
    \/ \E c \in Charts : ClosePatch(c) /\ UNCHANGED <<schedVars, dailyVars>>
    \/ \E c \in Charts : CloseUp(c) /\ UNCHANGED <<schedVars, dailyVars>>

SpecDaily == InitDaily /\ [][NextDaily]_vars

(***************************************************************************)
(* Spec: from_tasks and run over every task list within the bounds.        *)
(***************************************************************************)
Init ==
    /\ taskList \in TaskLists
    /\ SchedInit
    /\ TearInit
    /\ DailyIdle

Next ==
    \/ FromTasks /\ UNCHANGED <<tearVars, dailyVars>>
    \/ RunStart /\ UNCHANGED <<tearVars, dailyVars>>
    \/ LoopTop /\ UNCHANGED <<tearVars, dailyVars>>
    \/ LaunchOne /\ UNCHANGED <<tearVars, dailyVars>>
    \/ LaunchEnd /\ UNCHANGED <<tearVars, dailyVars>>
    \/ JoinNone /\ UNCHANGED <<tearVars, dailyVars>>
    \/ JoinNext /\ UNCHANGED <<tearVars, dailyVars>>
    \/ TaskEnds /\ UNCHANGED <<tearVars, dailyVars>>
    \/ SignalArrives /\ UNCHANGED <<tearVars, dailyVars>>

Spec == Init /\ [][Next]_vars

(***************************************************************************)
(* Properties of the scheduler (checked under Spec).                       *)
(***************************************************************************)
Started(t) == taskState[t] /= "idle"

LastOf(q) == q[Len(q)]

\* C1: a task body is started only after every task named in its deps has
\* finished with Ok and has been joined; a dependency that failed or never
\* ran enables nothing.
C1_DependencyRespect ==
    dagResult = "Ok" =>
        \A t \in DOMAIN taskState :
            Started(t) =>
                \A d \in Range(DepsOf(taskList, t)) :
                    taskState[d] = "ok" /\ d \in Range(joinLog)

\* a task with two different dependencies is running
C1_Witness ==
    /\ dagResult = "Ok"
    /\ \E t \in DOMAIN taskState :
          /\ taskState[t] = "running"
          /\ Cardinality(Range(DepsOf(taskList, t))) = 2

\* C4: once the latch is set, no step of run starts a task body, and no
\* step enqueues a task whose dependencies have completed (the queue run
\* collects before its loop, lines 99-103, is cleared at line 109).
C4_ShutdownPreventsAdmission ==
    [][Requested =>
          /\ \A t \in DOMAIN taskState : ~Started(t) => ~Started(t)'
          /\ \A t \in Range(ready') \ Range(ready) :
                DepsOf(taskList, t) = <<>> /\ schedPc = "start"]_vars

\* run returned Ok under shutdown and left behind a task whose last
\* dependency completed after the request: its indegree is 0, it never ran
C4_Witness ==
    /\ schedPc = "done"
    /\ shutdown
    /\ runResult.kind = "Ok"
    /\ \E t \in DOMAIN taskState :
          /\ ~Started(t)
          /\ DepsOf(taskList, t) /= <<>>
          /\ indegree[t] = 0

\* C5: when run returns a task error, no launched task is still running
\* and none has been aborted.
C5_ErrorWaitsForInflight ==
    (schedPc = "done" /\ runResult.kind = "Err") =>
        \A t \in DOMAIN taskState : taskState[t] \notin {"running", "aborted"}

ErrJoinedEndsRun ==
    /\ \A i \in DOMAIN joinLog :
          taskState[joinLog[i]] = "err" =>
              /\ schedPc = "done"
              /\ runResult = [kind |-> "Err", task |-> joinLog[i]]
    /\ runResult.kind = "Err" =>
          /\ joinLog /= <<>>
          /\ runResult.task = LastOf(joinLog)
          /\ taskState[runResult.task] = "err"
          /\ \A i \in 1..(Len(joinLog) - 1) : taskState[joinLog[i]] = "ok"

\* C6: as soon as run has joined a task error the run is over with exactly
\* that error as its result (the first error joined, every task joined
\* before it returned Ok), and from then on no task is started and the
\* result does not change.
C6_FirstErrorSurfaced ==
    [][/\ ErrJoinedEndsRun'
       /\ schedPc = "done" =>
             /\ runResult' = runResult
             /\ \A t \in DOMAIN taskState : ~Started(t) => ~Started(t)']_vars

\* run returned the error of one task while another task had failed too
C6_Witness ==
    /\ runResult.kind = "Err"
    /\ \E t \in DOMAIN taskState :
          t /= runResult.task /\ taskState[t] = "err"

\* the dependency relation of a task list and the names reachable along it
DependsOn(l, t) ==
    {l[i].deps[k] : <<i, k>> \in
        {x \in (DOMAIN l) \X (1..MaxDeps) :
            l[x[1]].name = t /\ x[2] \in DOMAIN l[x[1]].deps}}

RECURSIVE ReachableIn(_, _, _)
ReachableIn(l, S, n) ==
    IF n = 0 THEN S
    ELSE ReachableIn(l, S \cup UNION {DependsOn(l, t) : t \in S}, n - 1)

HasCycle(l) ==
    \E t \in NamesOf(l) : t \in ReachableIn(l, DependsOn(l, t), Len(l))

\* C7: from_tasks returns a scheduler exactly for the task lists without
\* duplicate name, without unknown dependency and without dependency cycle.
C7_FromTasksIffValidDag ==
    dagResult /= "none" =>
        (dagResult = "Ok" <=>
            /\ ~HasDuplicateName(taskList)
            /\ ~HasUnknownDependency(taskList)
            /\ ~HasCycle(taskList))

InitTear ==
    /\ SchedIdle
    /\ TearInitFor(TearCallers)
    /\ DailyIdle

NextTear ==
    \/ \E c \in TearCallers : \E n \in Applications :
          CallTear(c, n) /\ UNCHANGED <<schedVars, dailyVars>>
    \/ \E c \in TearCallers : \E t \in DOMAIN tds :
          CallClose(c, t) /\ UNCHANGED <<schedVars, dailyVars>>
    \/ \E c \in TearCallers :
          CallReturns(c) /\ UNCHANGED <<schedVars, dailyVars>>
    \/ \E c \in TearCallers :
          TearRead(c) /\ UNCHANGED <<schedVars, dailyVars>>
    \/ \E c \in TearCallers :
          TearFastGuard(c) /\ UNCHANGED <<schedVars, dailyVars>>
    \/ \E c \in TearCallers :
          TearWrite(c) /\ UNCHANGED <<schedVars, dailyVars>>
    \/ \E c \in TearCallers :
          TearUp(c) /\ UNCHANGED <<schedVars, dailyVars>>
    \/ \E c \in TearCallers :
          TearGet(c) /\ UNCHANGED <<schedVars, dailyVars>>
    \/ \E c \in TearCallers :
          TearPatch(c) /\ UNCHANGED <<schedVars, dailyVars>>
    \/ \E c \in TearCallers :
          TearNewGuard(c) /\ UNCHANGED <<schedVars, dailyVars>>
    \/ \E c \in TearCallers :
          TearRollbackDone(c) /\ UNCHANGED <<schedVars, dailyVars>>
    \/ \E c \in TearCallers :
          CloseRead(c) /\ UNCHANGED <<schedVars, dailyVars>>
    \/ \E c \in TearCallers :
          CloseTdWrite(c) /\ UNCHANGED <<schedVars, dailyVars>>
    \/ \E c \in TearCallers :
          CloseNodeWrite(c) /\ UNCHANGED <<schedVars, dailyVars>>
    \/ \E c \in TearCallers :
          ClosePatch(c) /\ UNCHANGED <<schedVars, dailyVars>>
    \/ \E c \in TearCallers :
          CloseUp(c) /\ UNCHANGED <<schedVars, dailyVars>>

SpecTear == InitTear /\ [][NextTear]_vars

(***************************************************************************)
(* Claims about tear / close, checked under SpecTear.                      *)
(***************************************************************************)
\* the guards a caller got back from tear() and has not handed to close()
Outstanding == {t \in DOMAIN tds : \E c \in DOMAIN held : BagIn(t, held[c])}

\* C2: while a guard returned by tear(A) is outstanding, A and every
\* ancestor of A are paused (no restore has been applied to any of them).
C2_OutstandingGuardKeepsPaused ==
    \A t \in Outstanding :
        \A n \in {tds[t].argocd} \cup Range(AncestorChain(tds[t].argocd)) :
            ~automated[n]

\* C3: between the first tear of a node and its final close the pause patch
\* is issued once: a pause patch is in flight on a node only while no
\* teardown is recorded on it.
C3_PauseIssuedOnce ==
    \A c \in DOMAIN stack :
        AtPc(c, "t_patch") => tear[Top(c).node].kind = None

\* C9: once a caller's tear() has returned the error of a failed read or
\* pause of node A, that error is recorded on A.
C9_FailureRecorded ==
    \A c \in DOMAIN stack :
        (stack[c] = <<>> /\ tearLog[c].failedAt /= None)
            => tear[tearLog[c].failedAt].kind = "Err"

IsPrefix(p, q) == Len(p) <= Len(q) /\ p = SubSeq(q, 1, Len(p))

\* the rollback close of caller c has returned and tear is about to return
RollbackOver(c) == AtPc(c, "t_rb") /\ ret[c].kind /= None

\* node n is paused on behalf of somebody other than the tear of c that is
\* returning: a guard of its teardown is held somewhere, or another caller
\* is at work on n
HasOtherHolder(n, c) ==
    \/ \E t \in DOMAIN tds : tds[t].argocd = n /\ GuardRefs(t) > 0
    \/ \E d \in DOMAIN stack \ {c} :
          \E i \in DOMAIN stack[d] : stack[d][i].node = n

\* the rollback of c restored nearest ancestors first, and no ancestor is
\* left paused for this call alone
RolledBack(c) ==
    /\ IsPrefix(tearLog[c].restored, AncestorChain(Top(c).node))
    /\ \A n \in Range(AncestorChain(Top(c).node)) :
          ~automated[n] => HasOtherHolder(n, c)

\* C10 as stated: when tear returns the error of a failed read or pause of
\* A, the rollback has restored the ancestors nearest first and no ancestor
\* that was paused only for this call remains paused.
C10_RollbackRestoresAncestors ==
    \A c \in DOMAIN stack : RollbackOver(c) => RolledBack(c)

\* a restore patch failed on n or on a node below n: the close that failed
\* stopped there and did not go on to the nodes above
RestoreFailedAtOrBelow(n) ==
    \E m \in restoreFailed : n \in {m} \cup Range(AncestorChain(m))

\* C10 amended: when tear returns the error of a failed read or pause of A,
\* the rollback has restored ancestors nearest first, and an ancestor that
\* is still paused has another holder, unless a restore patch failed on it
\* or on a node below it.
C10_RollbackUnlessRestoreFails ==
    \A c \in DOMAIN stack :
        RollbackOver(c) =>
            /\ IsPrefix(tearLog[c].restored, AncestorChain(Top(c).node))
            /\ \A n \in Range(AncestorChain(Top(c).node)) :
                  ~automated[n] =>
                      HasOtherHolder(n, c) \/ RestoreFailedAtOrBelow(n)

\* a failed pause of s1 rolled back servers, minecraft and apps
C10_Witness ==
    \E c \in DOMAIN stack :
        /\ RollbackOver(c)
        /\ Top(c).node = "s1"
        /\ Top(c).err.at = "pause"
        /\ restoreFailed = {}
        /\ tearLog[c].restored = <<"servers", "minecraft", "apps">>
        /\ \A n \in {"servers", "minecraft", "apps"} : automated[n]

\* C14: in one run each task body is invoked at most once: a task waiting
\* in the ready queue has not been started and is still in the task map, no
\* task is queued twice, and a task that was started has left the task map.
C14_BodyInvokedAtMostOnce ==
    /\ \A i \in 1..Len(ready) :
           /\ ready[i] \in tasks
           /\ taskState[ready[i]] = "idle"
           /\ \A j \in 1..Len(ready) : ready[j] = ready[i] => j = i
    /\ \A t \in DOMAIN taskState : taskState[t] /= "idle" => t \notin tasks

\* a task that lists one dependency twice has run, and the run returned Ok
C14_Witness ==
    /\ schedPc = "done"
    /\ runResult.kind = "Ok"
    /\ \E t \in DOMAIN taskState, d \in DOMAIN taskState :
           /\ taskState[t] = "ok"
           /\ Count(DepsOf(taskList, t), d) = 2

\* C15: when shutdown was requested during the run, run returns only after
\* every task in flight has settled (none is cancelled or still running),
\* with Ok if none of them failed and with the task error otherwise.
C15_ShutdownJoinsInflight ==
    (schedPc = "done" /\ shutdown /\ runResult.kind /= "JoinErr") =>
        /\ \A t \in DOMAIN taskState : taskState[t] \notin {"running", "aborted"}
        /\ runResult.kind = "Ok" <=> \A t \in DOMAIN taskState : taskState[t] /= "err"

(***************************************************************************)
(* The scheduler under the fairness of the runtime: the run future is      *)
(* polled as long as it can proceed, and a spawned task body that has      *)
(* started comes to an end.                                                *)
(***************************************************************************)
InitLive ==
    /\ taskList \in TaskLists \cup {DailyTasks}
    /\ SchedInit
    /\ TearInit
    /\ DailyIdle

\* a step of from_tasks / run
RunStep ==
    /\ FromTasks \/ RunStart \/ LoopTop \/ LaunchOne \/ LaunchEnd \/ JoinNone
          \/ JoinNext
    /\ UNCHANGED <<tearVars, dailyVars>>

\* a spawned task body ends
BodyStep == TaskEnds /\ UNCHANGED <<tearVars, dailyVars>>

NextLive ==
    \/ FromTasks /\ UNCHANGED <<tearVars, dailyVars>>
    \/ RunStart /\ UNCHANGED <<tearVars, dailyVars>>
    \/ LoopTop /\ UNCHANGED <<tearVars, dailyVars>>
    \/ LaunchOne /\ UNCHANGED <<tearVars, dailyVars>>
    \/ LaunchEnd /\ UNCHANGED <<tearVars, dailyVars>>
    \/ JoinNone /\ UNCHANGED <<tearVars, dailyVars>>
    \/ JoinNext /\ UNCHANGED <<tearVars, dailyVars>>
    \/ TaskEnds /\ UNCHANGED <<tearVars, dailyVars>>
    \/ SignalArrives /\ UNCHANGED <<tearVars, dailyVars>>

SpecLive ==
    InitLive /\ [][NextLive]_vars /\ WF_vars(RunStep) /\ WF_vars(BodyStep)

\* from_tasks accepts the list and no task depends on itself through others
AcyclicDag == FromTasksKind(taskList) = "Ok" /\ ~HasCycle(taskList)

\* no shutdown was requested and no task body returned Err or panicked
AllOkNoShutdown ==
    /\ ~shutdown
    /\ \A t \in DOMAIN taskState : taskState[t] \notin {"err", "panic"}

SevenTasks ==
    {"argocd_teardown", "shutdown_mcproxy", "shutdown_mcserver/s1",
     "shutdown_mcserver/s2", "relaunch_mcserver/s1", "relaunch_mcserver/s2",
     "relaunch_mcproxy"}

\* C18: for an acyclic task graph, when every task body returns Ok and
\* shutdown is never requested, run eventually returns Ok, and when it has
\* returned every task has run exactly once; the graph of the two-server
\* configuration without jobs has exactly the seven named tasks.
C18_AllOkRunReturnsOk ==
    /\ (AcyclicDag /\ []AllOkNoShutdown)
          => <>(schedPc = "done" /\ runResult.kind = "Ok")
    /\ []((AcyclicDag /\ AllOkNoShutdown /\ schedPc = "done")
            => /\ runResult.kind = "Ok"
               /\ \A t \in NamesOf(taskList) :
                     taskState[t] = "ok" /\ Count(joinLog, t) = 1)
    /\ [](Len(DailyTasks) = 7 /\ NamesOf(DailyTasks) = SevenTasks)

\* the run of the seven daily tasks returned Ok, relaunch_mcproxy last
C18_Witness ==
    /\ taskList = DailyTasks
    /\ AllOkNoShutdown
    /\ schedPc = "done"
    /\ runResult.kind = "Ok"
    /\ Len(joinLog) = 7
    /\ joinLog[7] = "relaunch_mcproxy"

(***************************************************************************)
(* build_daily_tasks with custom jobs (routine/daily/mod.rs lines 62-158). *)
(* A configuration gives each server key its jobs_after_snapshot map: job  *)
(* name -> dependencies.  config/raw.rs copies the dependencies unchecked. *)
(***************************************************************************)
MaxJobDeps == 1

JobNames == {"a", "b"}

\* CustomJob.dependencies
JobDepVecs == SeqsUpTo(JobNames, MaxJobDeps)

\* jobs_after_snapshot of one chart
JobMaps(S) == UNION {[J -> JobDepVecs] : J \in SUBSET S}

\* s1 has any of the jobs a and b, s2 has at most the job b
JobConfigs == [s1 : JobMaps(JobNames), s2 : JobMaps({"b"})]

\* lines 104, 106, 127: the task name of a job
JobTask(key, j) == "execute_job/after_snapshot/" \o key \o "/" \o j

\* a BTreeMap iterates in key order
SortedJobs(m) == CHOOSE p \in Perms(DOMAIN m) : IsSorted(p)

\* faulty variant: a job waits for the jobs it names only
JobTaskDepsJobsOnly(key, deps) ==
    [i \in DOMAIN deps |-> JobTask(key, deps[i])]

\* lines 105-109: the dependencies, each formatted with the key of the
\* job's own server, then shutdown_mcserver/{key}
JobTaskDeps(key, deps) ==
    [i \in DOMAIN deps |-> JobTask(key, deps[i])]
        \o <<"shutdown_mcserver/" \o key>>

\* lines 90-117: one task per job of the server
JobTasksOf(cfg, key) ==
    [i \in DOMAIN SortedJobs(cfg[key]) |->
        [name |-> JobTask(key, SortedJobs(cfg[key])[i]),
         deps |-> JobTaskDeps(key, cfg[key][SortedJobs(cfg[key])[i]])]]

\* faulty variant: relaunch waits for the shutdown of the server only
RelaunchDepsShutdownOnly(cfg, key) == <<"shutdown_mcserver/" \o key>>

\* lines 122-131: relaunch waits for every job of the server and for its
\* shutdown
RelaunchDeps(cfg, key) ==
    [i \in DOMAIN SortedJobs(cfg[key]) |-> JobTask(key, SortedJobs(cfg[key])[i])]
        \o <<"shutdown_mcserver/" \o key>>

BuildDailyTasks(cfg) ==
    << [name |-> Teardown, deps |-> <<>>],
       [name |-> "shutdown_mcproxy", deps |-> <<Teardown>>] >>
    \o [i \in DOMAIN McServers |->
          [name |-> "shutdown_mcserver/" \o McServers[i],
           deps |-> <<"shutdown_mcproxy">>]]
    \o JobTasksOf(cfg, McServers[1])
    \o JobTasksOf(cfg, McServers[2])
    \o [i \in DOMAIN McServers |->
          [name |-> "relaunch_mcserver/" \o McServers[i],
           deps |-> RelaunchDeps(cfg, McServers[i])]]
    \o << [name |-> "relaunch_mcproxy",
           deps |-> [i \in DOMAIN McServers |->
                        "relaunch_mcserver/" \o McServers[i]]
                    \o <<"shutdown_mcproxy">>] >>

\* every configuration with the task list built from it
ConfigTaskLists ==
    {[cfg |-> c, tasks |-> BuildDailyTasks(c)] : c \in JobConfigs}

\* the scheduler on the task list of a configuration with jobs
InitJobs ==
    /\ taskList \in {b.tasks : b \in ConfigTaskLists}
    /\ SchedInit
    /\ TearInit
    /\ DailyIdle

SpecJobs == InitJobs /\ [][Next]_vars

\* the body of t returned Ok and run joined it
JoinedOk(t) ==
    /\ t \in DOMAIN taskState
    /\ taskState[t] = "ok"
    /\ t \in Range(joinLog)

\* job j of server key starts only after shutdown_mcserver/{key} succeeded
\* and after the task of every d in deps, taken as a job of the same
\* server, succeeded
StartsInOrder(key, j, deps) ==
    Started(JobTask(key, j)) =>
        /\ JoinedOk("shutdown_mcserver/" \o key)
        /\ \A d \in Range(deps) : JoinedOk(JobTask(key, d))

\* C20 as stated: each job task starts only after the shutdown of its
\* server and after the tasks of its dependencies succeeded, and every
\* dependency name is the name of a job of the same server.
C20_JobOrderAlwaysResolves ==
    \A b \in ConfigTaskLists :
        taskList = b.tasks =>
            \A k \in DOMAIN McServers :
                \A j \in DOMAIN b.cfg[McServers[k]] :
                    /\ StartsInOrder(McServers[k], j, b.cfg[McServers[k]][j])
                    /\ \A d \in Range(b.cfg[McServers[k]][j]) :
                           d \in DOMAIN b.cfg[McServers[k]]

\* C20 (amended): each job task starts only after the shutdown of its
\* server and after the tasks of its dependencies succeeded; a dependency
\* name is looked up among the jobs of the same server only, and when it
\* names none of them from_tasks returns UnknownDependency and no task
\* starts.
C20_JobOrder ==
    \A b \in ConfigTaskLists :
        taskList = b.tasks =>
            \A k \in DOMAIN McServers :
                \A j \in DOMAIN b.cfg[McServers[k]] :
                    /\ StartsInOrder(McServers[k], j, b.cfg[McServers[k]][j])
                    /\ \A d \in Range(b.cfg[McServers[k]][j]) :
                           \/ d \in DOMAIN b.cfg[McServers[k]]
                           \/ /\ dagResult \in {"none", "UnknownDependency"}
                              /\ \A t \in DOMAIN taskState : ~Started(t)

\* s1 has the jobs a and b, b depending on a: b is running after a
\* succeeded
C20_Witness ==
    /\ JobTask("s1", "b") \in DOMAIN taskState
    /\ JobTask("s1", "a") \in DOMAIN taskState
    /\ taskState[JobTask("s1", "b")] = "running"
    /\ JoinedOk(JobTask("s1", "a"))
    /\ JobTask("s1", "a") \in Range(DepsOf(taskList, JobTask("s1", "b")))

(***************************************************************************)
(* build_daily_tasks with required_to_start (mod.rs lines 146-155): the    *)
(* configurations without jobs in which each server is required or not.    *)
(* config/raw.rs lines 113-119 reject the one in which no server is.       *)
(***************************************************************************)
\* raw.rs line 149: required_to_start of each server, at least one is true
RequiredConfigs ==
    {r \in [Range(McServers) -> BOOLEAN] : \E k \in Range(McServers) : r[k]}

\* faulty variant: relaunch_mcproxy waits for every server
RelaunchProxyDepsAll(r) ==
    [i \in DOMAIN McServers |-> "relaunch_mcserver/" \o McServers[i]]
        \o <<"shutdown_mcproxy">>

\* lines 148-152: the servers filtered by required_to_start, then
\* shutdown_mcproxy
RelaunchProxyDeps(r) ==
    LET req == SelectSeq(McServers, LAMBDA k : r[k])
    IN [i \in DOMAIN req |-> "relaunch_mcserver/" \o req[i]]
           \o <<"shutdown_mcproxy">>

\* the six tasks before relaunch_mcproxy, then relaunch_mcproxy
BuildRequiredTasks(r) ==
    SubSeq(BuildDailyTasks([s1 |-> <<>>, s2 |-> <<>>]), 1, 6)
        \o << [name |-> "relaunch_mcproxy", deps |-> RelaunchProxyDeps(r)] >>

RequiredTaskLists ==
    {[req |-> r, tasks |-> BuildRequiredTasks(r)] : r \in RequiredConfigs}

InitRequired ==
    /\ taskList \in {b.tasks : b \in RequiredTaskLists}
    /\ SchedInit
    /\ TearInit
    /\ DailyIdle

SpecRequired == InitRequired /\ [][Next]_vars

\* C21: relaunch_mcproxy starts only after shutdown_mcproxy and
\* relaunch_mcserver/{k} of every server k with required_to_start = true
\* succeeded, and it has no dependency on the relaunch of a server with
\* required_to_start = false.
C21_ProxyWaitsForRequired ==
    \A b \in RequiredTaskLists :
        taskList = b.tasks =>
            /\ Started("relaunch_mcproxy") =>
                  /\ JoinedOk("shutdown_mcproxy")
                  /\ \A k \in Range(McServers) :
                        b.req[k] => JoinedOk("relaunch_mcserver/" \o k)
            /\ \A k \in Range(McServers) :
                  ~b.req[k] =>
                      ("relaunch_mcserver/" \o k)
                          \notin Range(DepsOf(taskList, "relaunch_mcproxy"))

\* s2 is not required: relaunch_mcproxy is running while the shutdown of
\* s2 has not ended
C21_Witness ==
    /\ \E b \in RequiredTaskLists : taskList = b.tasks /\ ~b.req["s2"]
    /\ taskState["relaunch_mcproxy"] = "running"
    /\ taskState["shutdown_mcserver/s2"] = "running"
    /\ taskState["relaunch_mcserver/s2"] = "idle"

\* C22: relaunch_mcserver/{key} starts only after shutdown_mcserver/{key}
\* and the task of every job of that server succeeded: no job of the
\* server is unstarted or running when its relaunch starts.
C22_RelaunchAfterJobs ==
    \A b \in ConfigTaskLists :
        taskList = b.tasks =>
            \A k \in DOMAIN McServers :
                Started("relaunch_mcserver/" \o McServers[k]) =>
                    /\ JoinedOk("shutdown_mcserver/" \o McServers[k])
                    /\ \A j \in DOMAIN b.cfg[McServers[k]] :
                          JoinedOk(JobTask(McServers[k], j))

\* s1 has the jobs a and b; its relaunch is running after both succeeded
C22_Witness ==
    /\ JobTask("s1", "a") \in DOMAIN taskState
    /\ JobTask("s1", "b") \in DOMAIN taskState
    /\ JoinedOk(JobTask("s1", "a"))
    /\ JoinedOk(JobTask("s1", "b"))
    /\ taskState["relaunch_mcserver/s1"] = "running"

(***************************************************************************)
(* Claims about locking, checked under SpecTear.                           *)
(***************************************************************************)
\* the lock the innermost future of c is waiting for at its await
AwaitedLock(c) ==
    LET f == Top(c)
    IN CASE f.pc \in {"t_read"} -> [lk |-> nodeLock[f.node], m |-> "r"]
         [] f.pc \in {"t_write", "c_aw"} -> [lk |-> nodeLock[f.node], m |-> "w"]
         [] f.pc \in {"t_gg", "t_gg2", "c_read"} -> [lk |-> tdLock[f.td], m |-> "r"]
         [] f.pc = "c_tw" -> [lk |-> tdLock[f.td], m |-> "w"]
         [] OTHER -> [lk |-> FreeLock, m |-> "-"]

\* c is inside tear / close and cannot go on before somebody drops a lock
WaitsForLock(c) ==
    /\ stack[c] /= <<>>
    /\ AwaitedLock(c).m /= "-"
    /\ ~Holds(AwaitedLock(c).lk, c, AwaitedLock(c).m)

\* C11: no interleaving of tear() and close() reaches a state in which the
\* callers block each other forever: whenever a caller waits for a lock,
\* some caller that is inside a call can still take a step.
C11_NoDeadlock ==
    (\E c \in DOMAIN stack : WaitsForLock(c))
        => \E c \in DOMAIN stack : stack[c] /= <<>> /\ ~WaitsForLock(c)

\* every caller is outside tear / close and holds no guard
AllClosed ==
    \A c \in DOMAIN stack : Idle(c) /\ held[c] = EmptyBag

\* C12: after successful tear() calls whose guards have all been closed
\* (no API call failed), every node has no teardown state and the sync
\* policy it had before the first tear.
C12_MatchedPairsIdentity ==
    (AllClosed /\ faults = 0)
        => \A n \in Nodes : tear[n].kind = None /\ automated[n]

\* both callers tore a server, both guards were closed again
C12_Witness ==
    /\ AllClosed
    /\ faults = 0
    /\ \A c \in DOMAIN calls : calls[c] = MaxCalls
    /\ Len(tds) > 0
    /\ DOMAIN calls /= {}

\* C13: in a close cascade the restore patch of a child is issued before
\* the restore patch of its parent: while close() of a node waits for the
\* close of its upstream guard, the node itself is already restored, and
\* the upstream close works on the node's parent.
C13_ChildRestoredBeforeParent ==
    \A c \in DOMAIN stack :
        \A i \in 1..Len(stack[c]) :
            (stack[c][i].op = "close" /\ stack[c][i].pc = "c_up")
                => /\ automated[stack[c][i].node] = tds[stack[c][i].td].orig
                   /\ i < Len(stack[c])
                        => /\ stack[c][i + 1].op = "close"
                           /\ stack[c][i + 1].node = Parent[stack[c][i].node]

\* a cascade is about to patch a parent that is still paused, its child
\* having been restored by the same close
C13_Witness ==
    \E c \in DOMAIN stack :
        /\ Len(stack[c]) >= 2
        /\ AtPc(c, "c_patch")
        /\ ~automated[Top(c).node]
        /\ stack[c][Len(stack[c]) - 1].op = "close"
        /\ stack[c][Len(stack[c]) - 1].pc = "c_up"
        /\ automated[stack[c][Len(stack[c]) - 1].node]

C16_FinalizerReleasesAll ==
    routinePc.at = "done" =>
        /\ routineResult = runResult.kind
        /\ runResult.kind \in {"Ok", "Err", "JoinErr"}
        /\ \A ch \in Charts : chartTear[ch] = NoTear /\ stack[ch] = <<>>

\* the release of the proxy chart failed, the chart of s1 was released
\* after it, and the routine returned
C16_Witness ==
    /\ routinePc.at = "done"
    /\ "mcproxy" \in restoreFailed
    /\ tearLog["s1"].op = "close"
    /\ automated["s1"]
    /\ \E t \in DOMAIN tds : tds[t].argocd = "s1"

\* the tasks that come after shutdown_mcproxy through shutdown_mcserver/s1
AfterProxyShutdown ==
    {"shutdown_mcserver/s1", "relaunch_mcserver/s1", "relaunch_mcproxy"}

\* shutdown was requested after shutdown_mcproxy completed and before
\* shutdown_mcserver/s1 was launched
ShutdownBeforeServers ==
    /\ shutdown
    /\ taskState["shutdown_mcproxy"] = "ok"
    /\ taskState["shutdown_mcserver/s1"] = "idle"

\* C17: if shutdown is requested after shutdown_mcproxy completed and
\* before shutdown_mcserver/s1 is launched, the bodies of
\* shutdown_mcserver/s1 and of the tasks after it are never invoked, and
\* (no restore patch failing) the routine returns with the proxy's
\* application restored by the finalizer.
C17_ShutdownAfterProxy ==
    /\ [][ShutdownBeforeServers =>
             \A t \in AfterProxyShutdown : taskState'[t] = "idle"]_vars
    /\ []((ShutdownBeforeServers /\ routinePc.at = "done" /\ restoreFailed = {})
             => /\ automated["mcproxy"]
                /\ chartTear["mcproxy"] = NoTear
                /\ tear["mcproxy"].kind = None)

\* the routine returned after such a shutdown; the proxy's application had
\* been paused and its guard was closed by the finalizer
C17_Witness ==
    /\ ShutdownBeforeServers
    /\ routinePc.at = "done"
    /\ restoreFailed = {}
    /\ tearLog["mcproxy"].op = "close"
    /\ \E t \in DOMAIN tds : tds[t].argocd = "mcproxy"
    /\ automated["mcproxy"]

\* C19: in every run of the daily routine shutdown_mcproxy starts only
\* after argocd_teardown returned Ok and was joined, each
\* shutdown_mcserver/{key} starts only after shutdown_mcproxy returned Ok
\* and was joined, and while the run lasts a task that scales a StatefulSet
\* has started only with the applications of the proxy and of all servers
\* paused.
C19_ShutdownOrder ==
    /\ Started("shutdown_mcproxy")
          => taskState[Teardown] = "ok" /\ Teardown \in Range(joinLog)
    /\ \A i \in DOMAIN McServers :
          Started("shutdown_mcserver/" \o McServers[i])
             => /\ taskState["shutdown_mcproxy"] = "ok"
                /\ "shutdown_mcproxy" \in Range(joinLog)
    /\ \A t \in DOMAIN taskState \ {Teardown} :
          (Started(t) /\ routinePc.at = "run")
             => \A ch \in Charts : ~automated[ch] /\ chartTear[ch].kind = "Ok"

\* a server shutdown is running, the proxy shutdown is over, everything is
\* paused
C19_Witness ==
    /\ taskState["shutdown_mcserver/s2"] = "running"
    /\ taskState["shutdown_mcproxy"] = "ok"
    /\ routinePc.at = "run"
    /\ \A n \in Nodes : ~automated[n]

(***************************************************************************)
(* The wait loops: wait_until_statefulset_scaled (statefulset.rs lines     *)
(* 126-204), wait_until_job_finished (job.rs lines 26-98) and              *)
(* wait_until_pod_stopped (wait_until_pod_stopped.rs lines 13-87).  The    *)
(* three have the same loop; the pod loop has no "no status" answer.       *)
(* Durations are whole seconds.                                            *)
(***************************************************************************)
MaxDur == 2
MaxWait == 3
MaxErrors == 2
MaxProbes == 5      \* not-yet probes counted in a loop with poll_interval = 0

WaitKinds == {"statefulset", "job", "pod"}

\* config/polling.rs lines 8-35
PollingConfigs ==
    [initial_wait : 0..MaxDur, poll_interval : 0..MaxDur, max_wait : 0..MaxWait,
     error_wait : 0..MaxDur, max_errors : 0..MaxErrors]

\* the function was called and sleeps initial_wait
WaitCalled(k, c) == [NoWait EXCEPT !.kind = k, !.cfg = c, !.pc = "initial"]

waitFrame ==
    <<schedVars, tearVars, chartTear, phasePc, routinePc, routineResult, exec,
      conf, chart, shut>>

\* statefulset.rs lines 139-141: the first sleep is over
InitialSleepDone ==
    /\ wait.pc = "initial"
    /\ wait' = [wait EXCEPT !.pc = "probe", !.elapsed = wait.cfg.initial_wait,
                            !.errors = 0]
    /\ UNCHANGED waitFrame

\* lines 149-159: the answer satisfies the predicate
ProbeSatisfied ==
    /\ wait.pc = "probe"
    /\ wait' = [wait EXCEPT !.pc = "done", !.result = "Ok", !.first = FALSE,
                            !.last = "satisfied"]
    /\ UNCHANGED waitFrame

\* faulty variant: the timeout needs more than max_wait
TimedOutStrict(w) == w.elapsed > w.cfg.max_wait

\* line 168
TimedOut(w) == w.elapsed >= w.cfg.max_wait

\* lines 161-181: the answer does not satisfy the predicate yet
\* the not-yet probes made so far; a loop with poll_interval = 0 does not
\* advance and its probes are counted up to MaxProbes only
CountNotYet(w) ==
    IF w.cfg.poll_interval = 0 /\ w.notyet = MaxProbes
    THEN w.notyet ELSE w.notyet + 1

ProbeNotYet ==
    /\ wait.pc = "probe"
    /\ IF TimedOut(wait)
       THEN wait' = [wait EXCEPT !.pc = "done", !.result = "Timeout",
                                 !.reported = wait.elapsed, !.first = FALSE,
                                 !.last = "notyet",
                                 !.notyet = CountNotYet(wait)]
       ELSE wait' = [wait EXCEPT !.pc = "sleep",
                                 !.elapsed = @ + wait.cfg.poll_interval,
                                 !.first = FALSE, !.last = "notyet",
                                 !.notyet = CountNotYet(wait)]
    /\ UNCHANGED waitFrame

\* lines 183-185: a StatefulSet or Job without status
ProbeNoStatus ==
    /\ wait.pc = "probe"
    /\ wait.kind /= "pod"
    /\ wait' = [wait EXCEPT !.pc = "done", !.result = "NoStatus",
                            !.first = FALSE, !.last = "nostatus"]
    /\ UNCHANGED waitFrame

\* faulty variant: one error more is tolerated
TooManyErrorsStrict(n, w) == n > w.cfg.max_errors

\* line 193
TooManyErrors(n, w) == n >= w.cfg.max_errors

\* lines 186-201: the request failed
ProbeError ==
    /\ wait.pc = "probe"
    /\ IF TooManyErrors(wait.errors + 1, wait)
       THEN wait' = [wait EXCEPT !.pc = "done", !.result = "KubeClient",
                                 !.errors = @ + 1, !.first = FALSE,
                                 !.last = "error"]
       ELSE wait' = [wait EXCEPT !.pc = "sleep", !.errors = @ + 1,
                                 !.elapsed = @ + wait.cfg.error_wait,
                                 !.first = FALSE, !.last = "error"]
    /\ UNCHANGED waitFrame

\* lines 180, 200: the sleep before the next probe is over
SleepDone ==
    /\ wait.pc = "sleep"
    /\ wait' = [wait EXCEPT !.pc = "probe"]
    /\ UNCHANGED waitFrame

InitWait ==
    /\ taskList = <<>>
    /\ SchedInit
    /\ TearInit
    /\ chartTear = <<>>
    /\ phasePc = "idle"
    /\ routinePc = [at |-> "idle", i |-> 0]
    /\ routineResult = None
    /\ exec = NoExec
    /\ conf = NoConf
    /\ chart = <<>>
    /\ shut = NoShut
    /\ wait \in {WaitCalled(k, c) : k \in WaitKinds, c \in PollingConfigs}

NextWait ==
    \/ InitialSleepDone
    \/ ProbeSatisfied
    \/ ProbeNotYet
    \/ ProbeNoStatus
    \/ ProbeError
    \/ SleepDone

SpecWait == InitWait /\ [][NextWait]_vars

\* C23: the first probe is made with elapsed = initial_wait; a not-yet
\* probe ends the loop with a timeout carrying elapsed if elapsed >=
\* max_wait and otherwise adds poll_interval to elapsed and probes again;
\* a timeout is reported only with elapsed >= max_wait, and the loop
\* returns success on the first probe that satisfies the predicate.
C23_PollingLoop ==
    /\ []((wait.pc = "probe" /\ wait.first)
             => wait.elapsed = wait.cfg.initial_wait)
    /\ [](wait.result = "Timeout"
             => /\ wait.reported = wait.elapsed
                /\ wait.elapsed >= wait.cfg.max_wait
                /\ wait.last = "notyet")
    /\ [](wait.last = "satisfied" <=> wait.result = "Ok")
    /\ [][(wait.pc = "probe" /\ wait'.last = "notyet")
             => IF wait.elapsed >= wait.cfg.max_wait
                THEN wait'.pc = "done" /\ wait'.result = "Timeout"
                ELSE /\ wait'.pc = "sleep"
                     /\ wait'.elapsed = wait.elapsed + wait.cfg.poll_interval]_vars
    /\ [][wait.pc = "sleep" => wait'.pc = "probe"]_vars

\* a timeout after a probe that came two poll intervals after the first
C23_Witness ==
    /\ wait.result = "Timeout"
    /\ wait.cfg.poll_interval > 0
    /\ wait.errors = 0
    /\ wait.reported = wait.cfg.initial_wait + 2 * wait.cfg.poll_interval

\* C24: the transient errors are counted over the whole wait, from 0 and
\* without reset; a failed probe ends the loop with the client error
\* exactly when the count has reached max_errors, and otherwise adds
\* error_wait to elapsed and probes again.
C24_ErrorBudget ==
    /\ [](wait.pc = "initial" => wait.errors = 0)
    /\ [](wait.result = "KubeClient"
             <=> (wait.pc = "done" /\ wait.last = "error"))
    /\ [](wait.result = "KubeClient" => wait.errors >= wait.cfg.max_errors)
    /\ []((wait.last = "error" /\ wait.pc /= "done")
             => wait.errors < wait.cfg.max_errors)
    /\ [][wait.pc = "probe" =>
             /\ wait'.last = "error" => wait'.errors = wait.errors + 1
             /\ wait'.last /= "error" => wait'.errors = wait.errors
             /\ (wait'.last = "error" /\ wait'.pc /= "done")
                    => /\ wait'.pc = "sleep"
                       /\ wait'.elapsed = wait.elapsed + wait.cfg.error_wait]_vars
    /\ [][wait.pc \in {"sleep", "done"} => wait'.errors = wait.errors]_vars

\* an error, then a probe that was not an error, then the error that used
\* up the budget of two
C24_Witness ==
    /\ wait.result = "KubeClient"
    /\ wait.cfg.max_errors = 2
    /\ wait.errors = 2
    /\ wait.cfg.poll_interval > 0
    /\ wait.cfg.error_wait > 0
    /\ wait.elapsed = wait.cfg.initial_wait + wait.cfg.error_wait
                        + wait.cfg.poll_interval

(***************************************************************************)
(* execute_job (routine/daily/phase_execute_job.rs lines 18-96): create    *)
(* the Kubernetes Job, wait until it has finished, look at status.failed.  *)
(***************************************************************************)
\* JobStatus.failed of a finished job, an Option<i32>: None is <<>>,
\* Some(n) is <<n>>
FailedValues == {<<>>, <<0>>, <<1>>}

\* line 69: the guard of the first arm, negated
JobHasFailure(failed) == ~(failed = <<0>> \/ failed = <<>>)

\* faulty variant: the error of a job that is not required fails the task
TaskResultOfRequired(required, err) == IF err = None THEN "Ok" ELSE "Err"

\* lines 81-95: what the task returns for the result of the inner block
TaskResult(required, err) ==
    IF err = None THEN "Ok" ELSE IF required THEN "Err" ELSE "Ok"

execFrame ==
    <<schedVars, tearVars, chartTear, phasePc, routinePc, routineResult, conf,
      chart, shut>>

\* lines 48-55: jobs_api.create fails, `?` leaves the inner block
JobCreateFails ==
    /\ exec.pc = "create"
    /\ exec' = [exec EXCEPT !.pc = "done", !.err = "Create",
                            !.result = TaskResult(exec.required, "Create")]
    /\ UNCHANGED <<execFrame, wait>>

\* lines 48-66: the job is created, wait_until_job_finished is called
JobCreated ==
    /\ exec.pc = "create"
    /\ exec' = [exec EXCEPT !.pc = "waiting"]
    /\ wait' = WaitCalled("job", exec.polling)
    /\ UNCHANGED execFrame

\* lines 67-95: wait_until_job_finished returned
JobWaitOver ==
    /\ exec.pc = "waiting"
    /\ wait.pc = "done"
    /\ \E f \in FailedValues :
          LET e == IF wait.result /= "Ok" THEN wait.result
                   ELSE IF JobHasFailure(f) THEN "CustomJobHasFailure"
                   ELSE None
          IN exec' = [exec EXCEPT !.pc = "done", !.err = e,
                                  !.failed = IF wait.result = "Ok" THEN f ELSE <<>>,
                                  !.result = TaskResult(exec.required, e)]
    /\ UNCHANGED <<execFrame, wait>>

InitExec ==
    /\ taskList = <<>>
    /\ SchedInit
    /\ TearInit
    /\ chartTear = <<>>
    /\ phasePc = "idle"
    /\ routinePc = [at |-> "idle", i |-> 0]
    /\ routineResult = None
    /\ conf = NoConf
    /\ chart = <<>>
    /\ shut = NoShut
    /\ wait = NoWait
    /\ exec \in {[NoExec EXCEPT !.required = r, !.polling = c, !.pc = "create"] :
                    r \in BOOLEAN, c \in PollingConfigs}

NextExec ==
    \/ JobCreateFails
    \/ JobCreated
    \/ InitialSleepDone
    \/ ProbeSatisfied
    \/ ProbeNotYet
    \/ ProbeNoStatus
    \/ ProbeError
    \/ SleepDone
    \/ JobWaitOver

SpecExec == InitExec /\ [][NextExec]_vars

\* C25: an execute_job task fails only for a required job.  With required
\* = true a finished job with status.failed > 0 gives CustomJobHasFailure
\* and the task fails, status.failed unset or 0 is success; with required
\* = false the failure is only logged and the task returns Ok.
C25_OnlyRequiredJobFails ==
    exec.pc = "done" =>
        /\ exec.result = "Err" => exec.required
        /\ ~exec.required => exec.result = "Ok"
        /\ wait.result = "Ok" =>
              IF exec.failed \in {<<>>, <<0>>}
              THEN exec.err = None /\ exec.result = "Ok"
              ELSE /\ exec.err = "CustomJobHasFailure"
                   /\ exec.result = IF exec.required THEN "Err" ELSE "Ok"

\* a job that is not required finished with status.failed = 1: the task
\* returned Ok
C25_Witness ==
    /\ exec.pc = "done"
    /\ ~exec.required
    /\ wait.result = "Ok"
    /\ exec.failed = <<1>>
    /\ exec.err = "CustomJobHasFailure"
    /\ exec.result = "Ok"


(***************************************************************************)
(* MinecraftChart (kubernetes_objects/minecraft_chart.rs): argocd_teardown *)
(* and release called in any order on the three charts, a chart's calls    *)
(* one after the other (both take &mut self).                              *)
(***************************************************************************)
MaxChartCalls == 4  \* calls of argocd_teardown and release in one behaviour

\* the charts whose methods are called: two servers under the same parent
ChartsCalled == {"s1", "s2"}

\* the calls made so far
ChartCalls == Len(chart["s1"]) + Len(chart["s2"])

\* a call that has not returned
NoRes == [kind |-> None, err |-> None]

\* one call in the history of a chart: `acted` says that argocd_teardown
\* called tear(), or that release called close()
ChartOp(op, acted, res) == [op |-> op, acted |-> acted, res |-> res]

\* the chart's call that has not returned, if any
Pending(ch, op) ==
    /\ chart[ch] /= <<>>
    /\ chart[ch][Len(chart[ch])].op = op
    /\ chart[ch][Len(chart[ch])].res = NoRes

Returned(ch, res) ==
    [chart EXCEPT ![ch][Len(chart[ch])].res = res]

chartFrame ==
    <<schedVars, phasePc, routinePc, routineResult, wait, exec, conf, shut>>

\* faulty variant: only a success is answered from the cache
TearNeededUnlessOk(cached) == cached.kind /= "Ok"

\* minecraft_chart.rs lines 74-77: tear is called when nothing is cached
TearNeeded(cached) == cached.kind = None

\* minecraft_chart.rs lines 70-81: argocd_teardown is called; a cached result
\* is returned at once, otherwise tear() is called on the bound application
ArgocdTeardown(ch) ==
    /\ Idle(ch)
    /\ ChartCalls < MaxChartCalls
    /\ IF TearNeeded(chartTear[ch])
       THEN /\ EnterTear(ch, ch, <<>>)
            /\ tearLog' = [tearLog EXCEPT ![ch] =
                              [NoLog EXCEPT !.op = "tear", !.target = ch]]
            /\ chart' = [chart EXCEPT ![ch] =
                            Append(@, ChartOp("argocd_teardown", TRUE, NoRes))]
       ELSE /\ chart' = [chart EXCEPT ![ch] =
                            Append(@, ChartOp("argocd_teardown", FALSE,
                                              [kind |-> chartTear[ch].kind,
                                               err |-> chartTear[ch].err]))]
            /\ UNCHANGED <<stack, nodeLock, tearLog>>
    /\ UNCHANGED <<automated, tear, tds, tdLock, ret, held, calls, faults,
                   restoreFailed, chartTear, chartFrame>>

\* minecraft_chart.rs lines 81-90: tear returned; the guard or the error is
\* cached and Ok(()) or the error is returned
ArgocdTeardownDone(ch) ==
    /\ Pending(ch, "argocd_teardown")
    /\ stack[ch] = <<>>
    /\ ret[ch].kind /= None
    /\ chartTear' = [chartTear EXCEPT ![ch] = Memoised(ret[ch])]
    /\ ret' = [ret EXCEPT ![ch] = NoRet]
    /\ chart' = Returned(ch, [kind |-> ret[ch].kind, err |-> ret[ch].err])
    /\ UNCHANGED <<automated, tear, tds, nodeLock, tdLock, stack, held, calls,
                   faults, restoreFailed, tearLog, chartFrame>>

\* minecraft_chart.rs lines 101-106: release is called; argocd_tear.take()
\* empties the cache whatever it held, and a guard that was taken is closed
Release(ch) ==
    /\ Idle(ch)
    /\ ChartCalls < MaxChartCalls
    /\ chartTear' = [chartTear EXCEPT ![ch] = NoTear]
    /\ IF chartTear[ch].kind = "Ok"
       THEN /\ EnterClose(ch, chartTear[ch].td, <<>>)
            /\ tearLog' = [tearLog EXCEPT ![ch] = [NoLog EXCEPT !.op = "close"]]
            /\ chart' = [chart EXCEPT ![ch] =
                            Append(@, ChartOp("release", TRUE, NoRes))]
       ELSE /\ chart' = [chart EXCEPT ![ch] =
                            Append(@, ChartOp("release", FALSE,
                                              [kind |-> "Ok", err |-> None]))]
            /\ UNCHANGED <<stack, tdLock, tearLog>>
    /\ UNCHANGED <<automated, tear, tds, nodeLock, ret, held, calls, faults,
                   restoreFailed, chartFrame>>

\* minecraft_chart.rs line 103: close returned and release returns its result
ReleaseDone(ch) ==
    /\ Pending(ch, "release")
    /\ stack[ch] = <<>>
    /\ ret[ch].kind /= None
    /\ ret' = [ret EXCEPT ![ch] = NoRet]
    /\ chart' = Returned(ch, [kind |-> ret[ch].kind, err |-> ret[ch].err])
    /\ UNCHANGED <<automated, tear, tds, nodeLock, tdLock, stack, held, calls,
                   faults, restoreFailed, tearLog, chartTear, chartFrame>>

InitChart ==
    /\ SchedIdle
    /\ TearInitFor(Charts)
    /\ chartTear = [ch \in Charts |-> NoTear]
    /\ phasePc = "idle"
    /\ routinePc = [at |-> "idle", i |-> 0]
    /\ routineResult = None
    /\ wait = NoWait
    /\ exec = NoExec
    /\ conf = NoConf
    /\ chart = [ch \in Charts |-> <<>>]
    /\ shut = NoShut

chartRest ==
    <<schedVars, chartTear, phasePc, routinePc, routineResult, wait, exec, conf,
      chart, shut>>

NextChart ==
    \/ \E ch \in ChartsCalled : ArgocdTeardown(ch)
    \/ \E ch \in ChartsCalled : ArgocdTeardownDone(ch)
    \/ \E ch \in ChartsCalled : Release(ch)
    \/ \E ch \in ChartsCalled : ReleaseDone(ch)
    \/ \E c \in ChartsCalled : TearRead(c) /\ UNCHANGED chartRest
    \/ \E c \in ChartsCalled : TearFastGuard(c) /\ UNCHANGED chartRest
    \/ \E c \in ChartsCalled : TearWrite(c) /\ UNCHANGED chartRest
    \/ \E c \in ChartsCalled : TearUp(c) /\ UNCHANGED chartRest
    \/ \E c \in ChartsCalled : TearGet(c) /\ UNCHANGED chartRest
    \/ \E c \in ChartsCalled : TearPatch(c) /\ UNCHANGED chartRest
    \/ \E c \in ChartsCalled : TearNewGuard(c) /\ UNCHANGED chartRest
    \/ \E c \in ChartsCalled : TearRollbackDone(c) /\ UNCHANGED chartRest
    \/ \E c \in ChartsCalled : CloseRead(c) /\ UNCHANGED chartRest
    \/ \E c \in ChartsCalled : CloseTdWrite(c) /\ UNCHANGED chartRest
    \/ \E c \in ChartsCalled : CloseNodeWrite(c) /\ UNCHANGED chartRest
    \/ \E c \in ChartsCalled : ClosePatch(c) /\ UNCHANGED chartRest
    \/ \E c \in ChartsCalled : CloseUp(c) /\ UNCHANGED chartRest

SpecChart == InitChart /\ [][NextChart]_vars


\* no release of chart ch between its calls number i and j
NoReleaseBetween(ch, i, j) ==
    \A k \in i..j : chart[ch][k].op /= "release"

ReleaseStep(ch) ==
    /\ Len(chart'[ch]) = Len(chart[ch]) + 1
    /\ chart'[ch][Len(chart'[ch])].op = "release"

\* C27: release closes the cached guard, once, when a success is cached (the
\* cache is empty afterwards, so a second release closes nothing); on a
\* chart with a cached error, a chart never torn down or a chart already
\* released it calls nothing and changes nothing: not the applications, not
\* the Teardown objects, not the chart's cache.
C27_ReleaseNoOpUnlessOk ==
    [][\A ch \in ChartsCalled :
          ReleaseStep(ch)
          => IF chartTear[ch].kind = "Ok"
             THEN /\ chart'[ch][Len(chart'[ch])].acted
                  /\ stack'[ch] = <<CloseFrame(chartTear[ch].td)>>
                  /\ chartTear'[ch] = NoTear
             ELSE /\ ~chart'[ch][Len(chart'[ch])].acted
                  /\ UNCHANGED <<tearVars, chartTear>>]_vars


(***************************************************************************)
(* Configuration parsing (config/raw.rs, config/mod.rs): try_from on a raw *)
(* configuration.  A string is the sequence of its pieces, "/" being a     *)
(* piece of its own; Option values are sequences of length 0 or 1.         *)
(***************************************************************************)
MaxPath == 3        \* longest argocd path, in pieces, of the enumerated ones

Pieces == {"a", "b", "/"}

\* str::contains('/')
ContainsSlash(str) == \E k \in DOMAIN str : str[k] = "/"

RECURSIVE SplitPath(_)
\* mod.rs line 132: path.split('/'), the segments as names
SplitPath(str) ==
    IF str = <<>> THEN <<"">>
    ELSE LET rest == SplitPath(Tail(str))
         IN IF Head(str) = "/"
            THEN <<"">> \o rest
            ELSE <<Head(str) \o Head(rest)>> \o Tail(rest)

\* BTreeMap::insert
MapPut(m, k, v) == [n \in DOMAIN m \cup {k} |-> IF n = k THEN v ELSE m[n]]

\* initialize.rs lines 24-37: the path of a new node
ArgoCdPath(m, parent, name) ==
    (IF parent = <<>> THEN <<>> ELSE m[parent[1]].path) \o <<name>>

\* initialize.rs lines 6-23: both constructors build the same struct; `kind`
\* records which of the two was called
NewArgoCd(m, kind, parent, name) ==
    [name |-> name, path |-> ArgoCdPath(m, parent, name), parent |-> parent,
     kind |-> kind]

\* faulty variant: an existing node is returned whatever its parent is
ParentMatchesAlways(first_parent, parent_name) == TRUE

\* mod.rs line 75
ParentMatches(first_parent, parent_name) == first_parent = parent_name

\* mod.rs lines 53-101
GetOrInsertArgocdAppsOfApps(m, parent_name, name) ==
    IF name \in DOMAIN m
    THEN IF ParentMatches(m[name].parent, parent_name)
         THEN [argocds |-> m, err |-> None]
         ELSE [argocds |-> m, err |-> "ArgoCdParentMismatch"]
    ELSE [argocds |-> MapPut(m, name, NewArgoCd(m, "AppOfApps", parent_name, name)),
          err |-> None]

\* mod.rs line 108
NameTaken(m, name) == name \in DOMAIN m

\* mod.rs lines 103-126
InsertArgocdApplication(m, parent_name, name) ==
    IF NameTaken(m, name)
    THEN [argocds |-> m, err |-> "ArgoCdHasMultipleCharts"]
    ELSE [argocds |-> MapPut(m, name, NewArgoCd(m, "Application", parent_name, name)),
          err |-> None]

\* mod.rs lines 135-137: the parent handed over with segment k
ParentOf(segs, k) == IF k = 1 THEN <<>> ELSE <<segs[k - 1]>>

RECURSIVE InnerSegments(_, _, _)
\* mod.rs lines 135-140: the loop over all segments but the last, from k on
InnerSegments(st, segs, k) ==
    IF k >= Len(segs) \/ st.err /= None THEN st
    ELSE InnerSegments(
             GetOrInsertArgocdAppsOfApps(st.argocds, ParentOf(segs, k), segs[k]),
             segs, k + 1)

\* mod.rs lines 128-143
BuildArgocdHierarchy(m, str) ==
    LET segs == SplitPath(str)
        st == InnerSegments([argocds |-> m, err |-> None], segs, 1)
    IN IF st.err /= None THEN st
       ELSE InsertArgocdApplication(st.argocds, ParentOf(segs, Len(segs)),
                                    segs[Len(segs)])


\* Option<bool>
OptBool == {<<>>, <<TRUE>>, <<FALSE>>}

\* Option::unwrap_or
UnwrapOr(opt, default) == IF opt = <<>> THEN default ELSE opt[1]

\* raw.rs lines 20-40: RawMinecraftChart, jobs_after_snapshot by its keys
RawChart(name, argocd, jobs, required) ==
    [name |-> name, argocd |-> argocd, jobs_after_snapshot |-> jobs,
     required_to_start |-> required]

\* the keys of mcservers that are enumerated, in the order of the BTreeMap
\* ('/' sorts before the digits)
ServerKeys == << <<"s", "/", "3">>, <<"s1">>, <<"s2">> >>

\* every argocd path of up to MaxPath pieces
ShortPaths == SeqsUpTo(Pieces, MaxPath)

\* the configurations that differ in their paths: the proxy, s1 and
\* possibly s2, each with any short path
PathConfigs ==
    {[mcproxy |-> RawChart(<< <<"mcproxy">> >>, p, {}, <<>>),
      mcservers |-> [k \in DOMAIN sv |-> RawChart(<<>>, sv[k], {}, <<>>)]] :
        p \in ShortPaths,
        sv \in [{<<"s1">>} -> ShortPaths] \cup [{<<"s1">>, <<"s2">>} -> ShortPaths]}

\* mod.rs lines 158-185 (test_config_parse): the paths of the charts
TestPath(key) ==
    <<"apps", "/", "minecraft", "/">>
    \o (IF key = <<"mcproxy">> THEN key ELSE <<"servers", "/">> \o key)

\* job names with and without '/'
JobSets == {{}, {<<"j">>}, {<<"j", "/", "k">>}}

\* the configurations that differ in everything but their paths
FlagConfigs ==
    {[mcproxy |-> RawChart(n, TestPath(<<"mcproxy">>), j, r),
      mcservers |-> [k \in DOMAIN sv |->
                        RawChart(<<>>, TestPath(k), sv[k].jobs, sv[k].required)]] :
        n \in {<<>>, << <<"mcproxy">> >>}, j \in JobSets, r \in OptBool,
        sv \in UNION {[D -> [jobs : {{}, {<<"j", "/", "k">>}}, required : OptBool]] :
                         D \in SUBSET Range(ServerKeys)}}

RawConfigs == PathConfigs \cup FlagConfigs

\* try_from has been called with raw
ParseCalled(raw) ==
    [raw |-> raw, pc |-> "checks", i |-> 1, argocds |-> <<>>, mcproxy |-> <<>>,
     mcservers |-> <<>>, result |-> None]

\* raw.mcservers in iteration order
KeysOf(raw) == SelectSeq(ServerKeys, LAMBDA k : k \in DOMAIN raw.mcservers)

confFrame ==
    <<schedVars, tearVars, chartTear, phasePc, routinePc, routineResult, wait,
      exec, chart, shut>>

\* try_from returns Err(e)
Rejected(e) == [conf EXCEPT !.pc = "done", !.result = e]

\* faulty variant: a server that does not say so is not required to start
RequiredToStartDefaultFalse(opt) == UnwrapOr(opt, FALSE)

\* raw.rs line 116: s.required_to_start.unwrap_or(true)
RequiredToStart(opt) == UnwrapOr(opt, TRUE)

\* raw.rs lines 102-119: the checks made before anything is built
FirstChecks(raw) ==
    IF \E k \in DOMAIN raw.mcservers : ContainsSlash(k)
    THEN "McserverNameIncludesSlash"
    ELSE IF raw.mcproxy.required_to_start /= <<>>
    THEN "RequiredToStartCannotBeSetForMcproxy"
    ELSE IF ~\E k \in DOMAIN raw.mcservers :
                RequiredToStart(raw.mcservers[k].required_to_start)
    THEN "McproxyRequiresNoServerToStart"
    ELSE None

ParseChecks ==
    /\ conf.pc = "checks"
    /\ conf' = IF FirstChecks(conf.raw) = None
               THEN [conf EXCEPT !.pc = "mcproxy"]
               ELSE Rejected(FirstChecks(conf.raw))
    /\ UNCHANGED confFrame

\* raw.rs lines 165-188: build_jobs_after_snapshot
BuildJobsAfterSnapshot(jobs) ==
    IF \E j \in jobs : ContainsSlash(j) THEN "JobNameIncludesSlash" ELSE None

\* raw.rs lines 121-135: the proxy chart
ParseProxy ==
    /\ conf.pc = "mcproxy"
    /\ LET c == conf.raw.mcproxy
           h == BuildArgocdHierarchy(conf.argocds, c.argocd)
       IN conf' =
            IF h.err /= None THEN Rejected(h.err)
            ELSE IF c.name = <<>> THEN Rejected("McproxyNameMissing")
            ELSE IF BuildJobsAfterSnapshot(c.jobs_after_snapshot) /= None
            THEN Rejected(BuildJobsAfterSnapshot(c.jobs_after_snapshot))
            ELSE [conf EXCEPT
                    !.pc = "mcservers",
                    !.argocds = h.argocds,
                    !.mcproxy = <<[name |-> c.name[1],
                                   argocd |-> SplitPath(c.argocd)[Len(SplitPath(c.argocd))],
                                   required_to_start |-> FALSE]>>]
    /\ UNCHANGED confFrame

\* raw.rs lines 136-152: the next server chart
ParseServer ==
    /\ conf.pc = "mcservers"
    /\ conf.i <= Len(KeysOf(conf.raw))
    /\ LET k == KeysOf(conf.raw)[conf.i]
           c == conf.raw.mcservers[k]
           h == BuildArgocdHierarchy(conf.argocds, c.argocd)
       IN conf' =
            IF h.err /= None THEN Rejected(h.err)
            ELSE IF BuildJobsAfterSnapshot(c.jobs_after_snapshot) /= None
            THEN Rejected(BuildJobsAfterSnapshot(c.jobs_after_snapshot))
            ELSE [conf EXCEPT
                    !.i = @ + 1,
                    !.argocds = h.argocds,
                    !.mcservers = MapPut(@, k,
                        [name |-> UnwrapOr(c.name, k),
                         argocd |-> SplitPath(c.argocd)[Len(SplitPath(c.argocd))],
                         required_to_start |-> RequiredToStart(c.required_to_start)])]
    /\ UNCHANGED confFrame

\* raw.rs lines 154-159: Ok(Config { .. })
ParseOk ==
    /\ conf.pc = "mcservers"
    /\ conf.i > Len(KeysOf(conf.raw))
    /\ conf' = [conf EXCEPT !.pc = "done", !.result = "Ok"]
    /\ UNCHANGED confFrame

InitConf ==
    /\ SchedIdle
    /\ TearInit
    /\ chartTear = <<>>
    /\ phasePc = "idle"
    /\ routinePc = [at |-> "idle", i |-> 0]
    /\ routineResult = None
    /\ wait = NoWait
    /\ exec = NoExec
    /\ chart = <<>>
    /\ shut = NoShut
    /\ conf \in {ParseCalled(raw) : raw \in RawConfigs}

NextConf ==
    \/ ParseChecks
    \/ ParseProxy
    \/ ParseServer
    \/ ParseOk

SpecConf == InitConf /\ [][NextConf]_vars


(***************************************************************************)
(* Claims about configuration parsing, checked under SpecConf.             *)
(***************************************************************************)
\* every node is filed under its name, its parent is a node, and its path
\* is its parent's path followed by its name
PathsFollowParents(m) ==
    \A n \in DOMAIN m :
        /\ m[n].name = n
        /\ IF m[n].parent = <<>>
           THEN m[n].path = <<n>>
           ELSE /\ m[n].parent[1] \in DOMAIN m
                /\ m[n].path = m[m[n].parent[1]].path \o <<n>>

\* the argocd paths of the raw configuration
RawPaths(raw) ==
    {raw.mcproxy.argocd} \cup {raw.mcservers[k].argocd : k \in DOMAIN raw.mcservers}

\* wherever a name occurs in a path of the configuration, the node of that
\* name has the path that leads to the occurrence; no two nodes share a path
OnePathEach(m, raw) ==
    /\ \A str \in RawPaths(raw) : \A k \in DOMAIN SplitPath(str) :
          /\ SplitPath(str)[k] \in DOMAIN m
          /\ m[SplitPath(str)[k]].path = SubSeq(SplitPath(str), 1, k)
    /\ \A n1, n2 \in DOMAIN m : m[n1].path = m[n2].path => n1 = n2

\* the configuration of test_config_parse
IsTestConfig(raw) ==
    /\ raw.mcproxy.argocd = TestPath(<<"mcproxy">>)
    /\ DOMAIN raw.mcservers = {<<"s1">>, <<"s2">>}
    /\ \A k \in DOMAIN raw.mcservers : raw.mcservers[k].argocd = TestPath(k)

\* try_from returned Err while it built the hierarchy, the jobs or the name
\* of a chart
RejectedAtChart ==
    /\ conf.pc = "done"
    /\ conf.result /= "Ok"
    /\ FirstChecks(conf.raw) = None

\* the path of the chart at which try_from returned Err
FailingPath ==
    IF conf.mcproxy = <<>>
    THEN conf.raw.mcproxy.argocd
    ELSE conf.raw.mcservers[KeysOf(conf.raw)[conf.i]].argocd

\* segment k names a node that exists when the segment is reached: made for
\* an earlier chart or for an earlier segment of this path
Seen(m, segs, k) ==
    segs[k] \in DOMAIN m \/ \E j \in 1..(k - 1) : segs[j] = segs[k]

\* the parent that node was made with
FirstParent(m, segs, k) ==
    IF segs[k] \in DOMAIN m
    THEN m[segs[k]].parent
    ELSE ParentOf(segs, CHOOSE j \in 1..(k - 1) :
                           /\ segs[j] = segs[k]
                           /\ \A l \in 1..(j - 1) : segs[l] /= segs[k])

\* segment k is a name that reappears under a different parent
Reappears(m, segs, k) ==
    Seen(m, segs, k) /\ FirstParent(m, segs, k) /= ParentOf(segs, k)

\* C28 as stated: the forest is well formed after every accepted parse (six
\* nodes for the configuration of the test), and a path in which a name
\* reappears under a different parent, in whatever position, is rejected
\* with ParentMismatch.
C28_ReappearsParentMismatch ==
    /\ conf.result = "Ok"
       => /\ PathsFollowParents(conf.argocds)
          /\ OnePathEach(conf.argocds, conf.raw)
          /\ IsTestConfig(conf.raw) => Cardinality(DOMAIN conf.argocds) = 6
    /\ RejectedAtChart
       => LET segs == SplitPath(FailingPath)
          IN (\E k \in DOMAIN segs : Reappears(conf.argocds, segs, k))
             => conf.result = "ArgoCdParentMismatch"

\* C28: after every accepted parse each node n with parent p has
\* n.path = p.path ++ [n.name], every name that occurs in a configured path
\* is the node at exactly that path, and the configuration of the test has
\* exactly six nodes.  A chart path in which a name reappears under a
\* different parent is rejected: with ParentMismatch when the name is an
\* inner segment of the path (and in no other case), with MultipleCharts
\* when it is the last segment and no inner segment was rejected before.
C28_HierarchyWellFormed ==
    /\ PathsFollowParents(conf.argocds)
    /\ conf.result = "Ok"
       => /\ OnePathEach(conf.argocds, conf.raw)
          /\ IsTestConfig(conf.raw) => Cardinality(DOMAIN conf.argocds) = 6
    /\ RejectedAtChart
       => LET segs == SplitPath(FailingPath)
              inner == \E k \in 1..(Len(segs) - 1) :
                           Reappears(conf.argocds, segs, k)
          IN /\ inner <=> conf.result = "ArgoCdParentMismatch"
             /\ (~inner /\ Reappears(conf.argocds, segs, Len(segs)))
                => conf.result = "ArgoCdHasMultipleCharts"

\* the configuration of the test was accepted with its six nodes, server s2
\* at apps/minecraft/servers/s2
C28_Witness ==
    /\ conf.result = "Ok"
    /\ IsTestConfig(conf.raw)
    /\ DOMAIN conf.argocds = {"apps", "minecraft", "mcproxy", "servers", "s1", "s2"}
    /\ conf.argocds["s2"].path = <<"apps", "minecraft", "servers", "s2">>


\* the node each chart of the parsed configuration is bound to
BoundNodes ==
    [c \in {<<"mcproxy">>} \cup DOMAIN conf.mcservers |->
        IF c = <<"mcproxy">> THEN conf.mcproxy[1].argocd ELSE conf.mcservers[c].argocd]

\* every chart is bound to a node made by new_application, and every such
\* node to exactly one chart
OneChartEach ==
    /\ \A c \in DOMAIN BoundNodes :
          /\ BoundNodes[c] \in DOMAIN conf.argocds
          /\ conf.argocds[BoundNodes[c]].kind = "Application"
    /\ \A n \in DOMAIN conf.argocds :
          conf.argocds[n].kind = "Application"
          => Cardinality({c \in DOMAIN BoundNodes : BoundNodes[c] = n}) = 1

\* no node has a node made by new_application as its parent
ApplicationsAreLeaves ==
    \A n \in DOMAIN conf.argocds :
        conf.argocds[n].parent /= <<>>
        => conf.argocds[conf.argocds[n].parent[1]].kind /= "Application"

\* a chart path whose inner segments were taken and whose last segment
\* names an existing node is rejected with MultipleCharts
LastSegmentTaken ==
    RejectedAtChart
    => LET segs == SplitPath(FailingPath)
       IN (/\ \A k \in 1..(Len(segs) - 1) : ~Reappears(conf.argocds, segs, k)
           /\ Seen(conf.argocds, segs, Len(segs)))
          => conf.result = "ArgoCdHasMultipleCharts"

\* C29: in every accepted configuration each Application node is bound to
\* exactly one chart and is the parent of no node, so that no accepted path
\* has the Application node of another chart among its inner segments; a
\* path whose last segment already exists as a node is rejected with
\* MultipleCharts.
C29_ApplicationsAreLeaves ==
    /\ conf.result = "Ok" => (OneChartEach /\ ApplicationsAreLeaves)
    /\ LastSegmentTaken


\* some server of the raw configuration is required to start, an absent
\* value counting as true
SomeServerRequired(raw) ==
    \E k \in DOMAIN raw.mcservers :
        raw.mcservers[k].required_to_start \in {<<>>, <<TRUE>>}

\* C30: a configuration is accepted only if the proxy's required_to_start
\* is false or absent and at least one server is required to start; a
\* configuration whose servers are all required_to_start = false, or that
\* has no server, is rejected with McproxyRequiresNoServerToStart.
C30_RequiredToStart ==
    /\ conf.result = "Ok"
       => /\ conf.raw.mcproxy.required_to_start \in {<<>>, <<FALSE>>}
          /\ SomeServerRequired(conf.raw)
    /\ (conf.pc = "done" /\ ~SomeServerRequired(conf.raw))
       => conf.result = "McproxyRequiresNoServerToStart"


\* none of the checks made before the required_to_start check of the servers
\* rejects the raw configuration
ReachesServerCheck(raw) ==
    /\ \A k \in DOMAIN raw.mcservers : ~ContainsSlash(k)
    /\ raw.mcproxy.required_to_start = <<>>

\* C30 (amended): a configuration is accepted only if the proxy's
\* required_to_start is absent and at least one server is required to start
\* (absent counts as true).  A configuration whose servers are all
\* required_to_start = false, or that has no server, is rejected: with
\* McproxyRequiresNoServerToStart, and only such a configuration is, when no
\* server key contains '/' and the proxy's required_to_start is absent;
\* with the error of the earlier check otherwise.
C30_RequiredToStartChecked ==
    /\ conf.result = "Ok"
       => /\ conf.raw.mcproxy.required_to_start = <<>>
          /\ SomeServerRequired(conf.raw)
    /\ conf.pc = "done"
       => /\ ReachesServerCheck(conf.raw)
             => (conf.result = "McproxyRequiresNoServerToStart"
                 <=> ~SomeServerRequired(conf.raw))
          /\ ~SomeServerRequired(conf.raw)
             => conf.result \in {"McproxyRequiresNoServerToStart",
                                 "RequiredToStartCannotBeSetForMcproxy",
                                 "McserverNameIncludesSlash"}

\* the servers s1 and s2 both say required_to_start = false and the parse
\* was rejected for it
C30_Witness ==
    /\ conf.pc = "done"
    /\ conf.result = "McproxyRequiresNoServerToStart"
    /\ DOMAIN conf.raw.mcservers = {<<"s1">>, <<"s2">>}
    /\ \A k \in DOMAIN conf.raw.mcservers :
          conf.raw.mcservers[k].required_to_start = <<FALSE>>


(***************************************************************************)
(* The shutdown tasks (routine/daily/phase_shutdown_mcproxy.rs and         *)
(* phase_shutdown_mcservers.rs) of the chart named s1, against a cluster   *)
(* that holds the StatefulSet s1 and possibly a StatefulSet s1-0.          *)
(***************************************************************************)
\* the dedicated PollingConfig of the shutdown waits, {60s, 5s, 150s, 10s, 3},
\* in units of 50 seconds and with two errors
ShutdownPolling ==
    [initial_wait |-> 1, poll_interval |-> 1, max_wait |-> 3, error_wait |-> 1,
     max_errors |-> 2]

\* Option<i32>
OptReplicas == {<<>>, <<0>>, <<1>>}

\* StatefulSetStatus: currentReplicas and availableReplicas
StsStatuses == [current : OptReplicas, available : OptReplicas]

\* a StatefulSet of the cluster, or none of that name
StsObjects ==
    [exists : {TRUE}, replicas : OptReplicas,
     status : {<<>>} \cup {<<st>> : st \in StsStatuses}]
NoSts == [exists |-> FALSE, replicas |-> <<>>, status |-> <<>>]

\* phase_shutdown_mcservers.rs line 32: format!("{sts_name}-0")
PodNameOf(sts_name) == sts_name \o "-0"

\* statefulset.rs lines 149-151
IsScaled(status, target) ==
    /\ UnwrapOr(status.current, 0) = target
    /\ UnwrapOr(status.available, 0) = target

\* the task was started for the chart `name`
ShutCalled(task, name, cluster) ==
    [task |-> task, name |-> name, pc |-> "get", sts |-> cluster,
     patched |-> None, polled |-> None, exec |-> None, result |-> None]

shutFrame ==
    <<schedVars, tearVars, chartTear, phasePc, routinePc, routineResult, exec,
      conf, chart>>

\* the task returns res
ShutReturns(res) == [shut EXCEPT !.pc = "done", !.result = res]

\* statefulset.rs lines 67-78: api.get fails, `?` returns KubeClient
ShutGetFails ==
    /\ shut.pc = "get"
    /\ shut' = ShutReturns("KubeClient")
    /\ UNCHANGED <<wait, shutFrame>>

\* statefulset.rs lines 80-92 and phase_shutdown_mcservers.rs lines 45-53:
\* a StatefulSet that has replicas = 0 already makes the task return Ok
ShutGet ==
    /\ shut.pc = "get"
    /\ LET replicas == shut.sts[shut.name].replicas
       IN shut' = IF replicas = <<0>> THEN ShutReturns("Ok")
                  ELSE IF replicas = <<>> THEN ShutReturns("StatefulSetHasNoReplicas")
                  ELSE [shut EXCEPT !.pc = "patch"]
    /\ UNCHANGED <<wait, shutFrame>>

\* statefulset.rs lines 107-117: api.patch fails
ShutPatchFails ==
    /\ shut.pc = "patch"
    /\ shut' = ShutReturns("KubeClient")
    /\ UNCHANGED <<wait, shutFrame>>

\* the StatefulSet the scale-to-zero wait is called with:
\* phase_shutdown_mcproxy.rs line 30, phase_shutdown_mcservers.rs line 94
WaitTarget(task, sts_name) ==
    IF task = "mcproxy" THEN sts_name ELSE PodNameOf(sts_name)

\* the wait is called
ShutWaits(sh) ==
    /\ shut' = [sh EXCEPT !.pc = "wait", !.polled = WaitTarget(sh.task, sh.name)]
    /\ wait' = WaitCalled("statefulset", ShutdownPolling)

\* statefulset.rs lines 93-120: spec.replicas is patched to 0; the proxy task
\* goes on to the wait, the server task to the exec
ShutPatched ==
    /\ shut.pc = "patch"
    /\ LET sh == [shut EXCEPT !.sts[shut.name].replicas = <<0>>,
                              !.patched = shut.name]
       IN IF shut.task = "mcproxy"
          THEN ShutWaits(sh)
          ELSE shut' = [sh EXCEPT !.pc = "exec"] /\ UNCHANGED wait
    /\ UNCHANGED shutFrame

ExecOutcomes == {"start_failed", "join_failed", "ok"}

\* faulty variant: a failed exec ends the task
AfterExecFailing(outcome) == IF outcome = "ok" THEN "wait" ELSE "failed"

\* phase_shutdown_mcservers.rs lines 65-91: both failures are only logged
AfterExec(outcome) == "wait"

\* phase_shutdown_mcservers.rs lines 55-102: `rcon-cli stop` in pod {name}-0
\* fails to start, fails in join or succeeds; then the wait is called
ShutExec ==
    /\ shut.pc = "exec"
    /\ \E o \in ExecOutcomes :
          IF AfterExec(o) = "wait"
          THEN ShutWaits([shut EXCEPT !.exec = o])
          ELSE /\ shut' = [shut EXCEPT !.exec = o, !.pc = "done", !.result = "Exec"]
               /\ UNCHANGED wait
    /\ UNCHANGED shutFrame

\* what the probe of the wait loop gets for the StatefulSet it polls, unless
\* the request fails
ProbeAnswer ==
    LET o == shut.sts[shut.polled]
    IN IF ~o.exists THEN "error"
       ELSE IF o.status = <<>> THEN "nostatus"
       ELSE IF IsScaled(o.status[1], 0) THEN "satisfied"
       ELSE "notyet"

\* phase_shutdown_mcproxy.rs lines 27-40, phase_shutdown_mcservers.rs lines
\* 91-104: the wait returned
ShutWaitOver ==
    /\ shut.pc = "wait"
    /\ wait.pc = "done"
    /\ shut' = IF wait.result /= "Ok" THEN ShutReturns("StatefulSetNotScaled")
               ELSE IF shut.task = "mcproxy" THEN [shut EXCEPT !.pc = "sleep"]
               ELSE ShutReturns("Ok")
    /\ UNCHANGED <<wait, shutFrame>>

\* phase_shutdown_mcproxy.rs lines 38-40: the 10 seconds are over
ShutSleepDone ==
    /\ shut.pc = "sleep"
    /\ shut' = ShutReturns("Ok")
    /\ UNCHANGED <<wait, shutFrame>>

\* the StatefulSet controller of the cluster brings the status of a
\* StatefulSet with replicas = 0 to zero
StsController ==
    /\ shut.pc /= "idle"
    /\ \E n \in DOMAIN shut.sts :
          /\ shut.sts[n].exists
          /\ shut.sts[n].replicas = <<0>>
          /\ shut.sts[n].status /= <<[current |-> <<0>>, available |-> <<0>>]>>
          /\ shut' = [shut EXCEPT !.sts[n].status =
                         <<[current |-> <<0>>, available |-> <<0>>]>>]
    /\ UNCHANGED <<wait, shutFrame>>

InitShut ==
    /\ SchedIdle
    /\ TearInit
    /\ chartTear = <<>>
    /\ phasePc = "idle"
    /\ routinePc = [at |-> "idle", i |-> 0]
    /\ routineResult = None
    /\ wait = NoWait
    /\ exec = NoExec
    /\ conf = NoConf
    /\ chart = <<>>
    /\ shut \in {ShutCalled(t, "s1", [n \in {"s1", "s1-0"} |->
                                         IF n = "s1" THEN o ELSE p]) :
                    t \in {"mcproxy", "mcserver"}, o \in StsObjects,
                    p \in StsObjects \cup {NoSts}}

NextShut ==
    \/ ShutGetFails
    \/ ShutGet
    \/ ShutPatchFails
    \/ ShutPatched
    \/ ShutExec
    \/ InitialSleepDone /\ shut.pc = "wait"
    \/ ProbeSatisfied /\ shut.pc = "wait" /\ ProbeAnswer = "satisfied"
    \/ ProbeNotYet /\ shut.pc = "wait" /\ ProbeAnswer = "notyet"
    \/ ProbeNoStatus /\ shut.pc = "wait" /\ ProbeAnswer = "nostatus"
    \/ ProbeError /\ shut.pc = "wait"
    \/ SleepDone /\ shut.pc = "wait"
    \/ ShutWaitOver
    \/ ShutSleepDone
    \/ StsController

SpecShut == InitShut /\ [][NextShut]_vars


(***************************************************************************)
(* Claims about the shutdown tasks, checked under SpecShut.                *)
(***************************************************************************)
\* C31: the result of shutdown_mcserver does not depend on the rcon-cli
\* exec.  Whether the exec failed to start, failed in join or succeeded, the
\* scale-to-zero wait is called next, and the task returns Ok if the wait
\* returned Ok and StatefulSetNotScaled otherwise; no result is an exec
\* error.
C31_ExecDoesNotDecide ==
    /\ shut.result /= "Exec"
    /\ shut.exec /= None
       => /\ shut.task = "mcserver"
          /\ shut.patched = shut.name
          /\ shut.pc \in {"wait", "done"}
          /\ wait.pc /= "idle"
          /\ shut.pc = "done"
             => /\ wait.pc = "done"
                /\ shut.result = IF wait.result = "Ok" THEN "Ok"
                                 ELSE "StatefulSetNotScaled"

\* the exec failed to start and the task returned Ok after its wait
C31_Witness ==
    /\ shut.pc = "done"
    /\ shut.exec = "start_failed"
    /\ wait.result = "Ok"
    /\ shut.result = "Ok"


\* the wait of the task has returned Ok for the StatefulSet of the chart: a
\* probe saw it with currentReplicas = 0 and availableReplicas = 0
ObservedScaledToZero ==
    /\ wait.pc = "done"
    /\ wait.result = "Ok"
    /\ shut.polled = shut.name

\* C37: shutdown_mcproxy and shutdown_mcserver return Ok only after a probe
\* has observed the StatefulSet of the chart with currentReplicas = 0 and
\* availableReplicas = 0, whatever spec.replicas was when the task started.
C37_OkAfterObservedZero ==
    (shut.pc = "done" /\ shut.result = "Ok") => ObservedScaledToZero

\* C38: in shutdown_mcserver the scale-to-zero wait polls the StatefulSet
\* {name} that the task patched; {name}-0 names only the pod of the exec.
C38_WaitPollsPatchedStatefulSet ==
    (shut.task = "mcserver" /\ shut.polled /= None)
    => /\ shut.polled = shut.patched
       /\ shut.polled = shut.name


(***************************************************************************)
(* Deserialising a PollingConfig (config/polling.rs).  A document either   *)
(* omits the configuration or gives a map in which each field is absent    *)
(* or given; a duration is given as a number and a unit.                   *)
(***************************************************************************)
\* polling.rs lines 49-63: the default of each field, in seconds
DefaultInitialWait == 10
DefaultPollInterval == 5
DefaultMaxWait == 600
DefaultErrorWait == 10
DefaultMaxErrors == 5

\* faulty variant: the default of max_wait is 60 seconds
FieldDefaultsShortWait ==
    [initial_wait |-> DefaultInitialWait, poll_interval |-> DefaultPollInterval,
     max_wait |-> 60, error_wait |-> DefaultErrorWait,
     max_errors |-> DefaultMaxErrors]

\* polling.rs lines 9-34: the serde default of each field
FieldDefaults ==
    [initial_wait |-> DefaultInitialWait, poll_interval |-> DefaultPollInterval,
     max_wait |-> DefaultMaxWait, error_wait |-> DefaultErrorWait,
     max_errors |-> DefaultMaxErrors]

\* polling.rs lines 37-47: impl Default for PollingConfig
PollingConfigDefault ==
    [initial_wait |-> 10, poll_interval |-> 5, max_wait |-> 600,
     error_wait |-> 10, max_errors |-> 5]

DurationFields == {"initial_wait", "poll_interval", "max_wait", "error_wait"}
PollingFields == DurationFields \cup {"max_errors"}

\* the seconds of one unit of a duration string; "x" is no unit
UnitSeconds == [s |-> 1, m |-> 60]

\* the duration strings that are enumerated: 1s, 15s, 1m, 15m and 1x
DurationStrings ==
    {<<1, "s">>, <<15, "s">>, <<1, "m">>, <<15, "m">>, <<1, "x">>}

\* duration_str::deserialize_duration: the seconds, or nothing
DeserializeDuration(str) ==
    IF str[2] \in DOMAIN UnitSeconds
    THEN <<str[1] * UnitSeconds[str[2]]>>
    ELSE <<>>

\* the maps that are enumerated: each duration field absent or one of the
\* duration strings, max_errors absent, 0 or 3
PollingMaps ==
    {[f \in PollingFields |-> IF f = "max_errors" THEN e ELSE d[f]] :
        d \in [DurationFields -> {<<>>} \cup {<<x>> : x \in DurationStrings}],
        e \in {<<>>, <<0>>, <<3>>}}

\* a document: the configuration omitted, or a map
PollingDocuments == {<<>>} \cup {<<m>> : m \in PollingMaps}

\* one field of the map: its default if absent, its value if given
DeserializeField(m, f) ==
    IF m[f] = <<>> THEN <<FieldDefaults[f]>>
    ELSE IF f = "max_errors" THEN m[f]
    ELSE DeserializeDuration(m[f][1])

\* polling.rs lines 6-35 and #[serde(default)] on the field that holds the
\* configuration (raw.rs lines 57-59)
DeserializePolling(doc) ==
    IF doc = <<>> THEN [kind |-> "Ok", config |-> PollingConfigDefault]
    ELSE IF \E f \in PollingFields : DeserializeField(doc[1], f) = <<>>
    THEN [kind |-> "Err", config |-> PollingConfigDefault]
    ELSE [kind |-> "Ok",
          config |-> [f \in PollingFields |-> DeserializeField(doc[1], f)[1]]]

\* the document is deserialised
Deserialize ==
    /\ conf.pc = "deserialize"
    /\ conf' = [conf EXCEPT !.pc = "done", !.result = DeserializePolling(conf.raw)]
    /\ UNCHANGED confFrame

InitPolling ==
    /\ SchedIdle
    /\ TearInit
    /\ chartTear = <<>>
    /\ phasePc = "idle"
    /\ routinePc = [at |-> "idle", i |-> 0]
    /\ routineResult = None
    /\ wait = NoWait
    /\ exec = NoExec
    /\ chart = <<>>
    /\ shut = NoShut
    /\ conf \in {[raw |-> doc, pc |-> "deserialize",
                  result |-> [kind |-> None, config |-> PollingConfigDefault]] :
                    doc \in PollingDocuments}

NextPolling == Deserialize

SpecPolling == InitPolling /\ [][NextPolling]_vars

\* C32: deserialising a PollingConfig fills every missing field with its
\* default (10s, 5s, 600s, 10s, 5) and keeps every field that is given, so
\* that an empty map and an omitted configuration both give the default
\* configuration.
C32_MissingFieldsGetDefaults ==
    (conf.pc = "done" /\ conf.result.kind = "Ok")
    => LET c == conf.result.config
       IN IF conf.raw = <<>> \/ \A f \in PollingFields : conf.raw[1][f] = <<>>
          THEN c = [initial_wait |-> 10, poll_interval |-> 5, max_wait |-> 600,
                    error_wait |-> 10, max_errors |-> 5]
          ELSE \A f \in PollingFields :
                  c[f] = IF conf.raw[1][f] /= <<>>
                         THEN IF f = "max_errors" THEN conf.raw[1][f][1]
                              ELSE conf.raw[1][f][1][1]
                                   * (IF conf.raw[1][f][1][2] = "m" THEN 60 ELSE 1)
                         ELSE CASE f = "initial_wait" -> 10
                                [] f = "poll_interval" -> 5
                                [] f = "max_wait" -> 600
                                [] f = "error_wait" -> 10
                                [] f = "max_errors" -> 5

\* the document of test_polling_config_deserialize_defaults: only
\* poll_interval is given, as 15s
C32_Witness ==
    /\ conf.pc = "done"
    /\ conf.raw /= <<>>
    /\ conf.raw[1]["poll_interval"] = << <<15, "s">> >>
    /\ \A f \in PollingFields \ {"poll_interval"} : conf.raw[1][f] = <<>>
    /\ conf.result.kind = "Ok"
    /\ conf.result.config =
          [initial_wait |-> 10, poll_interval |-> 15, max_wait |-> 600,
           error_wait |-> 10, max_errors |-> 5]

\* ---------------------------------------------------------------------
\* The outcome of the daily routine over every accepted job configuration
\* (routine/daily/mod.rs 43-158, scheduler/dag_scheduler.rs 57-157)

\* run returned Ok and no shutdown was requested
ReportsSuccess == schedPc = "done" /\ runResult.kind = "Ok" /\ ~shutdown

\* C33: when the routine returns Ok and shutdown was never requested, every
\* task of the graph built from an accepted configuration has run, so
\* relaunch_mcproxy and every relaunch_mcserver/{key} have run.
C33_OkMeansEveryTaskRan ==
    ReportsSuccess => \A t \in NamesOf(taskList) : taskState[t] = "ok"

\* ---------------------------------------------------------------------
\* The fan-out of phase_argocd_teardown (phase_argocd_teardown.rs 30-49)

\* the phase's task ended by the panic of a guard dropped without close()
\* (tearing.rs 137-151)
DropPanicked == taskState[Teardown] = "panic"

\* the phase is over and no tear or close is at work
PhaseSettled == phasePc = "done" /\ \A c \in DOMAIN stack : stack[c] = <<>>

NoCallAtWork == \A c \in DOMAIN stack : stack[c] = <<>>

\* the counter of every Teardown is the number of its unclosed guards
CounterCountsGuards == \A t \in DOMAIN tds : tds[t].counter = GuardRefs(t)

\* fetch_sub never wrapped a counter below zero
NoUnderflow == \A t \in DOMAIN tds : tds[t].counter /= UsizeMax

\* a step that takes the Teardown off its node (write_guard.tear = None)
\* finds that Teardown's counter at zero
RemovedAtZero ==
    \A n \in Nodes :
        (tear[n].kind = "Ok" /\ tear'[n].kind = None)
            => tds[tear[n].td].counter = 0

\* C35: whenever no tear or close is in the middle of a step the counter of
\* every teardown state equals the number of unclosed guards that reference
\* it, the counter never underflows, and a teardown state is removed from
\* its node only with its counter at zero.
C35_CounterMatchesGuards ==
    /\ [](NoCallAtWork => CounterCountsGuards)
    /\ []NoUnderflow
    /\ [][RemovedAtZero]_vars

\* ---------------------------------------------------------------------
\* A restore patch that fails in close() (tearing.rs 111-132)

\* close() has returned the error of the restore patch to caller c's code
RestoreFailedIn(c) == ret[c].kind = "Err" /\ ret[c].err.at = "restore"

\* caller c's code takes a step
Steps(c) == stack'[c] /= stack[c]

\* C36: when the restore patch fails in the last close() of a node, close
\* returns the error, the node keeps its teardown state, that state keeps
\* the guard on the parent, and neither the failing step nor the return of
\* the error through the calling frames restores or closes anything: no
\* application's sync policy, no teardown state and no counter changes.
C36_FailedRestoreKeepsState ==
    [][\A c \in DOMAIN stack :
          /\ (~RestoreFailedIn(c) /\ RestoreFailedIn(c)')
                => /\ Steps(c)
                   /\ tear'[ret'[c].err.node] = tear[ret'[c].err.node]
                   /\ tds' = tds /\ automated' = automated
          /\ (RestoreFailedIn(c) /\ Steps(c))
                => tear' = tear /\ tds' = tds /\ automated' = automated]_vars

\* a close that was the last of mcproxy returned the error of its restore
\* patch: mcproxy keeps its teardown state with the guard on minecraft, and
\* minecraft and apps are still paused
C36_Witness ==
    \E c \in DOMAIN stack :
        /\ RestoreFailedIn(c) /\ ret[c].err.node = "mcproxy"
        /\ stack[c] = <<>>
        /\ tear["mcproxy"].kind = "Ok"
        /\ tds[tear["mcproxy"].td].upstream /= 0
        /\ tds[tear["mcproxy"].td].counter = 0
        /\ ~automated["minecraft"] /\ ~automated["apps"]
        /\ ~automated["mcproxy"]

\* ---------------------------------------------------------------------
\* Termination of the wait loops (statefulset.rs 126-204, job.rs 26-98,
\* wait_until_pod_stopped.rs 14-85)

\* every sleep ends and every request to the API server is answered, so
\* the loop always takes its next step
SpecWaitLive == SpecWait /\ WF_vars(NextWait)

\* ceil(a / b) for b > 0
Ceil(a, b) == -((-a) \div b)

Max0(a) == IF a > 0 THEN a ELSE 0

\* the failed probes a loop can make: the first failed probe ends a loop
\* whose max_errors is 0
ErrorBudget(cfg) == IF cfg.max_errors = 0 THEN 1 ELSE cfg.max_errors

Advances == wait.cfg.poll_interval > 0

\* C39 as stated: with poll_interval > 0 the loop terminates after at least
\* one probe, returns success, timeout or client error, and has made at
\* most ceil((max_wait - initial_wait) / poll_interval) + 1 not-yet probes
\* and at most max_errors failed probes (one when max_errors is 0).
C39_WaitTerminates ==
    /\ Advances => <>(wait.pc = "done")
    /\ [](wait.pc = "done" => ~wait.first)
    /\ []((Advances /\ wait.pc = "done")
            => wait.result \in {"Ok", "Timeout", "KubeClient"})
    /\ []((Advances /\ wait.pc = "done")
            => wait.notyet <= Ceil(wait.cfg.max_wait - wait.cfg.initial_wait,
                                   wait.cfg.poll_interval) + 1)
    /\ [](Advances => wait.errors <= ErrorBudget(wait.cfg))

\* C39, amended: the difference max_wait - initial_wait counts as 0 when
\* initial_wait is larger than max_wait, and a StatefulSet or Job without a
\* status ends the loop with a no-status error.
C39_WaitTerminatesClamped ==
    /\ Advances => <>(wait.pc = "done")
    /\ [](wait.pc = "done" => ~wait.first)
    /\ []((Advances /\ wait.pc = "done")
            => /\ wait.result \in {"Ok", "Timeout", "KubeClient", "NoStatus"}
               /\ wait.result = "NoStatus" => wait.kind /= "pod")
    /\ [](Advances
            => wait.notyet
                 <= Ceil(Max0(wait.cfg.max_wait - wait.cfg.initial_wait),
                         wait.cfg.poll_interval) + 1)
    /\ [](Advances => wait.errors <= ErrorBudget(wait.cfg))

\* a loop that timed out on its fourth not-yet probe, with max_wait three
\* poll intervals after initial_wait, after failed probes that used up all
\* but one of the error budget
C39_Witness ==
    /\ wait.pc = "done" /\ wait.result = "Timeout"
    /\ Advances
    /\ wait.cfg.initial_wait = 0
    /\ wait.cfg.max_wait = 3 * wait.cfg.poll_interval
    /\ wait.notyet = 4
    /\ wait.errors = wait.cfg.max_errors - 1
    /\ wait.errors > 0

\* ---------------------------------------------------------------------
\* Scheduler::run on a task list with a dependency cycle
\* (dag_scheduler.rs 98-157)

\* the tasks that lie on a dependency cycle
OnCycle(l) ==
    {t \in NamesOf(l) : t \in ReachableIn(l, DependsOn(l, t), Len(l))}

\* the tasks on a cycle and the tasks that depend on one, directly or not
BehindCycle(l) ==
    {t \in NamesOf(l) : ReachableIn(l, {t}, Len(l)) \cap OnCycle(l) /= {}}

\* from_tasks built a scheduler for a task list with a cycle
CyclicDag == FromTasksKind(taskList) = "Ok" /\ HasCycle(taskList)

\* C40: with a dependency cycle among its tasks run still terminates; the
\* tasks on the cycle and the tasks depending on them never become ready
\* and are never executed; and when every body returns Ok and no shutdown
\* is requested run returns Ok once all the other tasks have run.
C40_CycleRunTerminates ==
    /\ CyclicDag => <>(schedPc = "done")
    /\ [](CyclicDag =>
            \A t \in BehindCycle(taskList) :
                /\ taskState[t] = "idle"
                /\ t \notin Range(ready)
                /\ t \notin inflight
                /\ t \notin Range(joinLog))
    /\ []((CyclicDag /\ AllOkNoShutdown /\ schedPc = "done")
            => /\ runResult.kind = "Ok"
               /\ \A t \in NamesOf(taskList) \ BehindCycle(taskList) :
                     taskState[t] = "ok" /\ Count(joinLog, t) = 1)

\* run returned Ok on a list with a task that ran, a task on a cycle and a
\* task that only depends on the cycle, the last two never started
C40_Witness ==
    /\ CyclicDag
    /\ schedPc = "done" /\ runResult.kind = "Ok"
    /\ \E t \in NamesOf(taskList) : taskState[t] = "ok"
    /\ \E t \in BehindCycle(taskList) \ OnCycle(taskList) :
          taskState[t] = "idle"
    /\ \A t \in OnCycle(taskList) : taskState[t] = "idle"

====
